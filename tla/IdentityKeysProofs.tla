------------------------- MODULE IdentityKeysProofs -------------------------
(***************************************************************************)
(* Theorems about IdentityKeys: types for every interleaving; the          *)
(* wholeness of the key pair, what a success means and the keeping of a    *)
(* registered key, each of which is lost only after a recovery or a login  *)
(* has overlapped a restore.                                               *)
(***************************************************************************)
EXTENDS IdentityKeys, TLAPS

-----------------------------------------------------------------------------
(* Types.                                                                   *)

LEMMA NamesDistinct ==
    /\ "boot" \in Tasks /\ "retry" \in Tasks /\ "rec" \in Tasks /\ Inits \subseteq Tasks
    /\ Restorers \subseteq Tasks
    /\ \A i \in Inits : i # "boot" /\ i # "retry" /\ i # "rec" /\ i # None
BY InitsAssumption DEF Tasks, Restorers

LEMMA AnswerType ==
    ASSUME NEW what \in Whats, NEW key \in KeyOrNone
    PROVE  Answer(what, key) \in CallStates
BY DEF Answer, CallStates

LEMMA RequestType ==
    ASSUME NEW what \in Whats, NEW key \in KeyOrNone, NEW tok
    PROVE  Request(what, key, tok) \in CallStates
BY DEF Request, Answer, CallStates, Whats, KeyOrNone

LEMMA IdleType == Idle \in CallStates
BY DEF Idle, CallStates, Whats, KeyOrNone

LEMMA FreshType == Fresh \subseteq Keys \ Held
BY DEF Fresh

LEMMA FaultType ==
    ASSUME faults \in 0..MaxFaults, Fault
    PROVE  faults' \in 0..MaxFaults
BY BoundsAssumption DEF Fault

LEMMA RevokedType ==
    ASSUME NEW calls \in [Tasks -> CallStates]
    PROVE  Revoked(calls) \in [Tasks -> CallStates]
BY DEF Revoked, CallStates

LEMMA InitType == Init => TypeOK
<1> SUFFICES ASSUME Init PROVE TypeOK
  OBVIOUS
<1>1. {serverKey, keychain, cachedPrivateKey, identityKeyPublic} \subseteq KeyOrNone
  BY DEF Init, KeyOrNone
<1>2. pc \in [Tasks -> PCs] /\ call \in [Tasks -> CallStates] /\ reg \in [Tasks -> KeyOrNone]
  BY IdleType DEF Init, PCs, KeyOrNone
<1>3. recovery \in [skip : BOOLEAN, wiped : BOOLEAN, again : BOOLEAN, cut : BOOLEAN,
                    result : {"none", "success", "error"}]
  BY DEF Init, NoRecovery
<1>4. initializationPromise \in Inits \cup {None} /\ joined \in [Inits -> SUBSET {"boot", "retry", "rec"}]
  BY DEF Init
<1>5. faults \in 0..MaxFaults /\ others \in 0..MaxOthers
  BY BoundsAssumption DEF Init
<1>6. /\ bundleUploaded \in BOOLEAN /\ token \in {"none", "live", "dead"}
      /\ auth \in BOOLEAN /\ conflict \in {"none", "local", "push"} /\ deferred \in BOOLEAN
      /\ push \in BOOLEAN /\ torn \in BOOLEAN /\ loggedOut \in BOOLEAN
  BY DEF Init
<1> QED  BY <1>1, <1>2, <1>3, <1>4, <1>5, <1>6 DEF TypeOK

LEMMA ServeType ==
    ASSUME TypeOK, NEW t \in Tasks, Serve(t)
    PROVE  TypeOK'
<1>1. call[t].key \in KeyOrNone /\ NoKey \in KeyOrNone /\ serverKey \in KeyOrNone
  BY DEF TypeOK, KeyOrNone, CallStates
<1>2. /\ \A what \in Whats : Reply(t, what, NoKey) => call' \in [Tasks -> CallStates]
      /\ \A what \in Whats : Reply(t, what, serverKey) => call' \in [Tasks -> CallStates]
  BY <1>1, AnswerType DEF Reply, TypeOK
<1>3. CASE ServeBundle(t)
  BY <1>1, <1>2, <1>3 DEF ServeBundle, Serve, TypeOK, Whats, device, session, inits, history, bounds
<1>4. CASE ServeReset(t)
  <2>1. call' \in [Tasks -> CallStates]
    BY <1>1, <1>4, RevokedType, AnswerType DEF ServeReset, TypeOK, Whats
  <2> QED  BY <1>1, <1>4, <2>1
    DEF ServeReset, RevokedToken, Serve, TypeOK, device, session, inits, history, bounds
<1>5. CASE ServeUpload(t)
  BY <1>1, <1>2, <1>5 DEF ServeUpload, Serve, TypeOK, Whats, device, session, inits, history, bounds
<1>6. CASE ServeLogin(t)
  BY <1>1, <1>2, <1>6 DEF ServeLogin, Serve, TypeOK, Whats, device, session, inits, history, bounds
<1>7. CASE ServeRevoked(t)
  BY <1>1, <1>2, <1>7 DEF ServeRevoked, Serve, TypeOK, Whats, device, session, inits, history, bounds
<1> QED  BY <1>3, <1>4, <1>5, <1>6, <1>7 DEF Serve

LEMMA LoseType ==
    ASSUME TypeOK, NEW t \in Tasks, Lose(t)
    PROVE  TypeOK'
<1>1. NoKey \in KeyOrNone
  BY DEF KeyOrNone
<1>2. \A what \in Whats : Reply(t, what, NoKey) => call' \in [Tasks -> CallStates]
  BY <1>1, AnswerType DEF Reply, TypeOK
<1>3. call' \in [Tasks -> CallStates]
  BY <1>2 DEF Lose, Whats
<1>4. faults' \in 0..MaxFaults
  BY FaultType DEF Lose, TypeOK
<1> QED  BY <1>3, <1>4 DEF Lose, TypeOK, device, session, inits, history

LEMMA UnauthorizedType ==
    ASSUME TypeOK, NEW t \in Tasks, Unauthorized(t)
    PROVE  TypeOK'
<1>1. NoKey \in KeyOrNone /\ "denied" \in Whats
  BY DEF KeyOrNone, Whats
<1>2. call' \in [Tasks -> CallStates]
  BY <1>1, AnswerType DEF Unauthorized, Reply, TypeOK
<1>3. auth' \in BOOLEAN /\ conflict' \in {"none", "local", "push"} /\ deferred' \in BOOLEAN
  BY DEF Unauthorized, TypeOK, session
<1> QED  BY <1>2, <1>3 DEF Unauthorized, TypeOK, device, inits, history, bounds

\* A task goes on to the initialization it starts or joins.
LEMMA EnsureType ==
    ASSUME TypeOK, NEW c \in {"boot", "retry", "rec"}, NEW next \in PCs, NEW tok,
           EnsureKeysInitialized(c, next, tok)
    PROVE  /\ pc' \in [Tasks -> PCs] /\ call' \in [Tasks -> CallStates]
           /\ reg' \in [Tasks -> KeyOrNone] /\ initializationPromise' \in Inits \cup {None}
           /\ joined' \in [Inits -> SUBSET {"boot", "retry", "rec"}]
<1>1. NoKey \in KeyOrNone /\ FirstStep \in PCs /\ identityKeyPublic \in KeyOrNone
  BY DEF KeyOrNone, FirstStep, PCs, TypeOK
<1>2. CallOf(FirstStep, identityKeyPublic, tok) \in CallStates
  BY <1>1, RequestType, IdleType DEF CallOf, Whats
<1>3. CASE initializationPromise # None
  BY <1>1, <1>3, IdleType DEF EnsureKeysInitialized, TypeOK
<1>4. CASE initializationPromise = None
  <2>1. PICK i \in Inits :
          /\ initializationPromise' = i
          /\ joined' = [joined EXCEPT ![i] = {c}]
          /\ pc' = [pc EXCEPT ![c] = next, ![i] = FirstStep]
          /\ call' = [call EXCEPT ![c] = Idle, ![i] = CallOf(FirstStep, identityKeyPublic, tok)]
          /\ \E k \in IF FirstStep = "saving" THEN Fresh ELSE {NoKey} :
               reg' = [reg EXCEPT ![c] = NoKey, ![i] = k]
    BY <1>4 DEF EnsureKeysInitialized
  <2>2. reg' \in [Tasks -> KeyOrNone]
    BY <1>1, <2>1, FreshType DEF TypeOK, KeyOrNone
  <2>3. pc' \in [Tasks -> PCs] /\ call' \in [Tasks -> CallStates]
    BY <1>1, <1>2, <2>1, IdleType DEF TypeOK
  <2>4. /\ initializationPromise' \in Inits \cup {None}
        /\ joined' \in [Inits -> SUBSET {"boot", "retry", "rec"}]
    BY <2>1 DEF TypeOK
  <2> QED  BY <2>2, <2>3, <2>4
<1> QED  BY <1>3, <1>4

LEMMA InitializeType ==
    ASSUME TypeOK, NEW i \in Inits, Initialize(i)
    PROVE  TypeOK'
<1>1. i \in Tasks /\ NoKey \in KeyOrNone /\ reg[i] \in KeyOrNone /\ identityKeyPublic \in KeyOrNone
  BY DEF Tasks, KeyOrNone, TypeOK
<1>2. ASSUME NEW s \in PCs, NEW k \in KeyOrNone, NEW c \in CallStates, InitGoesTo(i, s, k, c)
      PROVE  pc' \in [Tasks -> PCs] /\ call' \in [Tasks -> CallStates] /\ reg' \in [Tasks -> KeyOrNone]
  BY <1>1, <1>2 DEF InitGoesTo, TypeOK
<1>3. \A what \in Whats, k \in KeyOrNone, tok \in {"none", "live", "dead"} :
        Request(what, k, tok) \in CallStates
  BY RequestType
<1>4. CASE InitSaved(i)
  <2>1. CASE InitGoesTo(i, "failed", NoKey, Idle) /\ Fault /\ UNCHANGED <<keychain, cachedPrivateKey>>
    <3>1. faults' \in 0..MaxFaults
      BY <2>1, FaultType DEF TypeOK
    <3>2. pc' \in [Tasks -> PCs] /\ call' \in [Tasks -> CallStates] /\ reg' \in [Tasks -> KeyOrNone]
      BY <1>1, <1>2, <2>1, IdleType DEF PCs
    <3> QED  BY <1>4, <2>1, <3>1, <3>2 DEF InitSaved, Initialize, TypeOK, session, inits, history
  <2>2. CASE /\ keychain' = reg[i] /\ cachedPrivateKey' = reg[i]
             /\ InitGoesTo(i, "provision", reg[i], Idle) /\ UNCHANGED faults
    <3>1. pc' \in [Tasks -> PCs] /\ call' \in [Tasks -> CallStates] /\ reg' \in [Tasks -> KeyOrNone]
      BY <1>1, <1>2, <2>2, IdleType DEF PCs
    <3> QED  BY <1>1, <1>4, <2>2, <3>1 DEF InitSaved, Initialize, TypeOK, session, inits, history
  <2> QED  BY <1>4, <2>1, <2>2 DEF InitSaved
<1>5. CASE InitProvisioned(i)
  <2>1. CASE InitGoesTo(i, "failed", NoKey, Idle) /\ Fault /\ UNCHANGED identityKeyPublic
    <3>1. faults' \in 0..MaxFaults
      BY <2>1, FaultType DEF TypeOK
    <3>2. pc' \in [Tasks -> PCs] /\ call' \in [Tasks -> CallStates] /\ reg' \in [Tasks -> KeyOrNone]
      BY <1>1, <1>2, <2>1, IdleType DEF PCs
    <3> QED  BY <1>5, <2>1, <3>1, <3>2 DEF InitProvisioned, Initialize, TypeOK, session, inits, history
  <2>2. CASE /\ identityKeyPublic' = reg[i] /\ UNCHANGED faults
             /\ LET s == IF bundleUploaded THEN "maintain" ELSE "upload"
                IN  InitGoesTo(i, s, NoKey, CallOf(s, reg[i], token))
    <3>1. \A s : CallOf(s, reg[i], token) \in CallStates
      BY <1>1, RequestType, IdleType DEF CallOf, Whats
    <3>2. pc' \in [Tasks -> PCs] /\ call' \in [Tasks -> CallStates] /\ reg' \in [Tasks -> KeyOrNone]
      BY <1>1, <1>2, <2>2, <3>1 DEF PCs
    <3> QED  BY <1>1, <1>5, <2>2, <3>2 DEF InitProvisioned, Initialize, TypeOK, session, inits, history
  <2> QED  BY <1>5, <2>1, <2>2 DEF InitProvisioned
<1>6. CASE InitUploaded(i)
  <2>1. OutcomeOf(i) \in PCs /\ "maintain" \in PCs
    BY DEF OutcomeOf, PCs
  <2>2. pc' \in [Tasks -> PCs] /\ call' \in [Tasks -> CallStates] /\ reg' \in [Tasks -> KeyOrNone]
    BY <1>1, <1>2, <1>6, <2>1, IdleType DEF InitUploaded
  <2> QED  BY <1>6, <2>2 DEF InitUploaded, Initialize, TypeOK, session, inits, history
<1>7. CASE InitRotates(i)
  <2>1. "upload" \in Whats /\ "replenish" \in PCs
    BY DEF Whats, PCs
  <2>2. pc' \in [Tasks -> PCs] /\ call' \in [Tasks -> CallStates] /\ reg' \in [Tasks -> KeyOrNone]
    BY <1>1, <1>2, <1>7, <2>1, RequestType DEF InitRotates
  <2> QED  BY <1>7, <2>2 DEF InitRotates, Initialize, TypeOK, device, session, inits, history
<1>8. CASE InitMaintained(i)
  <2>1. OutcomeOf(i) \in PCs /\ "done" \in PCs
    BY DEF OutcomeOf, PCs
  <2>2. pc' \in [Tasks -> PCs] /\ call' \in [Tasks -> CallStates] /\ reg' \in [Tasks -> KeyOrNone]
    BY <1>1, <1>2, <1>8, <2>1, IdleType DEF InitMaintained
  <2> QED  BY <1>8, <2>2 DEF InitMaintained, Initialize, TypeOK, device, session, inits, history
<1> QED  BY <1>4, <1>5, <1>6, <1>7, <1>8 DEF Initialize

LEMMA InitEndsType ==
    ASSUME TypeOK, NEW i \in Inits, InitEnds(i)
    PROVE  TypeOK'
<1>1. pc' \in [Tasks -> PCs]
  BY DEF InitEnds, TypeOK, PCs
<1>2. /\ initializationPromise' \in Inits \cup {None}
      /\ joined' \in [Inits -> SUBSET {"boot", "retry", "rec"}]
  BY DEF InitEnds, TypeOK
<1> QED  BY <1>1, <1>2 DEF InitEnds, TypeOK, device, history, bounds

LEMMA RestoreEndsType ==
    ASSUME TypeOK, NEW t \in Restorers, RestoreEnds(t)
    PROVE  /\ pc' \in [Tasks -> PCs] /\ call' \in [Tasks -> CallStates]
           /\ reg' \in [Tasks -> KeyOrNone]
BY NamesDistinct, IdleType DEF RestoreEnds, TypeOK, PCs, KeyOrNone

LEMMA RestoreStartsType ==
    ASSUME TypeOK, NEW t \in Restorers, NEW tok, RestoreStarts(t, tok)
    PROVE  /\ pc' \in [Tasks -> PCs] /\ call' \in [Tasks -> CallStates]
           /\ reg' \in [Tasks -> KeyOrNone]
<1>1. "bundle" \in Whats /\ NoKey \in KeyOrNone /\ "probe" \in PCs
  BY DEF Whats, KeyOrNone, PCs
<1>2. Request("bundle", NoKey, tok) \in CallStates
  BY <1>1, RequestType
<1>3. CASE RestoreEnds(t)
  BY <1>3, RestoreEndsType
<1>4. CASE /\ pc' = [pc EXCEPT ![t] = "probe"]
           /\ call' = [call EXCEPT ![t] = Request("bundle", NoKey, tok)]
           /\ reg' = [reg EXCEPT ![t] = cachedPrivateKey]
  BY <1>1, <1>2, <1>4 DEF TypeOK
<1> QED  BY <1>3, <1>4 DEF RestoreStarts

LEMMA RestoreDeferredType ==
    ASSUME TypeOK, NEW t \in Restorers, RestoreDeferred(t)
    PROVE  /\ pc' \in [Tasks -> PCs] /\ call' \in [Tasks -> CallStates]
           /\ reg' \in [Tasks -> KeyOrNone] /\ deferred' \in BOOLEAN
BY NamesDistinct, IdleType DEF RestoreDeferred, TypeOK, PCs, KeyOrNone

LEMMA RestoreType ==
    ASSUME TypeOK, NEW t \in Restorers, Restore(t)
    PROVE  TypeOK'
<1> USE NamesDistinct
<1>1. NoKey \in KeyOrNone /\ call[t].key \in KeyOrNone /\ reg[t] \in KeyOrNone
  BY DEF KeyOrNone, TypeOK, CallStates
<1>2. /\ pc' \in [Tasks -> PCs] /\ call' \in [Tasks -> CallStates]
      /\ reg' \in [Tasks -> KeyOrNone] /\ deferred' \in BOOLEAN
  <2>1. CASE RestoreProbed(t)
    <3>1. CASE RestoreDeferred(t)
      BY <3>1, RestoreDeferredType
    <3>2. CASE ~RestoreDeferred(t)
      BY <1>1, <2>1, <3>2, IdleType DEF RestoreProbed, TypeOK, PCs
    <3> QED  BY <3>1, <3>2
  <2>2. CASE RestoreCleared(t)
    BY <2>2, RestoreEndsType DEF RestoreCleared, TypeOK
  <2>3. CASE RestoreProvisioned(t)
    BY <2>3, RestoreEndsType, RestoreDeferredType DEF RestoreProvisioned, TypeOK
  <2> QED  BY <2>1, <2>2, <2>3 DEF Restore
<1>3. /\ {keychain', cachedPrivateKey', identityKeyPublic'} \subseteq KeyOrNone
      /\ faults' \in 0..MaxFaults
  BY <1>1, FaultType
    DEF Restore, RestoreProbed, RestoreCleared, RestoreProvisioned, RestoreDeferred,
        RemoveSecureItem, TypeOK
<1> QED  BY <1>2, <1>3 DEF Restore, TypeOK, inits, history

LEMMA ColdStartType == ASSUME TypeOK, ColdStart PROVE TypeOK'
<1>1. Request("verify", NoKey, token) \in CallStates
  BY RequestType DEF Whats, KeyOrNone
<1>2. pc' \in [Tasks -> PCs] /\ call' \in [Tasks -> CallStates]
  BY <1>1, NamesDistinct DEF ColdStart, TypeOK, PCs
<1> QED  BY <1>2 DEF ColdStart, TypeOK, device, session, inits, history, bounds

LEMMA LoginUserType == ASSUME TypeOK, LoginUser PROVE TypeOK'
<1>1. Request("login", NoKey, token) \in CallStates
  BY RequestType DEF Whats, KeyOrNone
<1>2. pc' \in [Tasks -> PCs] /\ call' \in [Tasks -> CallStates]
  BY <1>1, NamesDistinct DEF LoginUser, TypeOK, PCs
<1> QED  BY <1>2 DEF LoginUser, TypeOK, device, session, inits, history, bounds

LEMMA SignedInType == ASSUME TypeOK, SignedIn PROVE TypeOK'
<1>1. "boot" \in Restorers
  BY DEF Restorers
<1>2. /\ pc' \in [Tasks -> PCs] /\ call' \in [Tasks -> CallStates]
      /\ reg' \in [Tasks -> KeyOrNone]
  BY <1>1, RestoreStartsType DEF SignedIn
<1> QED  BY <1>2 DEF SignedIn, TypeOK, device, inits, history, bounds

LEMMA NotSignedInType == ASSUME TypeOK, NotSignedIn PROVE TypeOK'
<1>1. pc' \in [Tasks -> PCs] /\ call' \in [Tasks -> CallStates]
  BY NamesDistinct, IdleType DEF NotSignedIn, TypeOK, PCs
<1> QED  BY <1>1 DEF NotSignedIn, TypeOK, device, session, inits, history, bounds

LEMMA RetryIdentityRestoreType == ASSUME TypeOK, RetryIdentityRestore PROVE TypeOK'
<1>1. "retry" \in Restorers
  BY DEF Restorers
<1>2. /\ pc' \in [Tasks -> PCs] /\ call' \in [Tasks -> CallStates]
      /\ reg' \in [Tasks -> KeyOrNone]
  BY <1>1, RestoreStartsType DEF RetryIdentityRestore
<1> QED  BY <1>2 DEF RetryIdentityRestore, TypeOK, device, session, inits, history, bounds

LEMMA RetryRestoredType == ASSUME TypeOK, RetryRestored PROVE TypeOK'
<1>1. "retry" \in {"boot", "retry", "rec"} /\ "init" \in PCs
  BY DEF PCs
<1>2. EnsureKeysInitialized("retry", "init", token)
  BY DEF RetryRestored
<1>3. /\ pc' \in [Tasks -> PCs] /\ call' \in [Tasks -> CallStates]
      /\ reg' \in [Tasks -> KeyOrNone] /\ initializationPromise' \in Inits \cup {None}
      /\ joined' \in [Inits -> SUBSET {"boot", "retry", "rec"}]
  BY <1>1, <1>2, EnsureType
<1>4. deferred' \in BOOLEAN
  BY DEF RetryRestored
<1>5. UNCHANGED <<serverKey, device, token, auth, conflict, recovery, push, history, bounds>>
  BY DEF RetryRestored
<1> QED  BY <1>3, <1>4, <1>5 DEF TypeOK, device, history, bounds

LEMMA BootstrappedType == ASSUME TypeOK, Bootstrapped PROVE TypeOK'
<1>1. "boot" \in {"boot", "retry", "rec"} /\ "off" \in PCs
  BY DEF PCs
<1>2. /\ pc' \in [Tasks -> PCs] /\ call' \in [Tasks -> CallStates]
      /\ reg' \in [Tasks -> KeyOrNone] /\ initializationPromise' \in Inits \cup {None}
      /\ joined' \in [Inits -> SUBSET {"boot", "retry", "rec"}]
  <2>1. CASE EnsureKeysInitialized("boot", "off", token)
    BY <1>1, <2>1, EnsureType
  <2>2. CASE ~EnsureKeysInitialized("boot", "off", token)
    BY <1>1, <2>2, NamesDistinct DEF Bootstrapped, TypeOK, inits
  <2> QED  BY <2>1, <2>2
<1> QED  BY <1>2 DEF Bootstrapped, TypeOK, device, session, history, bounds

Recoveries == [skip : BOOLEAN, wiped : BOOLEAN, again : BOOLEAN, cut : BOOLEAN,
               result : {"none", "success", "error"}]

LEMMA RecGoesToType ==
    ASSUME TypeOK, NEW s \in PCs, NEW c \in CallStates, RecGoesTo(s, c)
    PROVE  /\ pc' \in [Tasks -> PCs] /\ call' \in [Tasks -> CallStates]
           /\ reg' \in [Tasks -> KeyOrNone] /\ initializationPromise' \in Inits \cup {None}
           /\ joined' \in [Inits -> SUBSET {"boot", "retry", "rec"}]
BY DEF RecGoesTo, TypeOK, inits

LEMMA RecRequestType ==
    ASSUME NEW what \in {"bundle", "reset", "login"}, NEW tok
    PROVE  Request(what, NoKey, tok) \in CallStates
BY RequestType DEF Whats, KeyOrNone

LEMMA RecFailsType ==
    ASSUME TypeOK, RecFails
    PROVE  /\ pc' \in [Tasks -> PCs] /\ call' \in [Tasks -> CallStates]
           /\ reg' \in [Tasks -> KeyOrNone] /\ initializationPromise' \in Inits \cup {None}
           /\ joined' \in [Inits -> SUBSET {"boot", "retry", "rec"}]
           /\ recovery' \in Recoveries
<1>1. "off" \in PCs
  BY DEF PCs
<1> QED  BY <1>1, RecGoesToType, IdleType DEF RecFails, TypeOK, Recoveries

LEMMA WipeOrLoginType ==
    ASSUME TypeOK, NEW wiped, WipeOrLogin(wiped)
    PROVE  /\ pc' \in [Tasks -> PCs] /\ call' \in [Tasks -> CallStates]
           /\ reg' \in [Tasks -> KeyOrNone] /\ initializationPromise' \in Inits \cup {None}
           /\ joined' \in [Inits -> SUBSET {"boot", "retry", "rec"}]
<1>1. "login" \in PCs /\ "wipe" \in PCs /\ Request("login", NoKey, token) \in CallStates
  BY RecRequestType DEF PCs
<1> QED  BY <1>1, RecGoesToType, IdleType DEF WipeOrLogin

LEMMA CancelDoneType ==
    ASSUME TypeOK, NEW r \in Recoveries, CancelDone(r)
    PROVE  /\ pc' \in [Tasks -> PCs] /\ call' \in [Tasks -> CallStates]
           /\ reg' \in [Tasks -> KeyOrNone] /\ initializationPromise' \in Inits \cup {None}
           /\ joined' \in [Inits -> SUBSET {"boot", "retry", "rec"}]
           /\ recovery' \in Recoveries
<1>1. "check" \in PCs /\ Request("bundle", NoKey, token) \in CallStates
  BY RecRequestType DEF PCs
<1>2. recovery' \in Recoveries
  BY DEF CancelDone, Recoveries, LocallyWiped
<1> QED  BY <1>1, <1>2, RecGoesToType, WipeOrLoginType DEF CancelDone

LEMMA EnsureRecType ==
    ASSUME TypeOK, NEW tok, EnsureKeysInitialized("rec", "init", tok)
    PROVE  /\ pc' \in [Tasks -> PCs] /\ call' \in [Tasks -> CallStates]
           /\ reg' \in [Tasks -> KeyOrNone] /\ initializationPromise' \in Inits \cup {None}
           /\ joined' \in [Inits -> SUBSET {"boot", "retry", "rec"}]
<1>1. "rec" \in {"boot", "retry", "rec"} /\ "init" \in PCs
  BY DEF PCs
<1> QED  BY <1>1, EnsureType

LEMMA RecoverType ==
    ASSUME TypeOK, Recover, UNCHANGED <<serverKey, push, others>>
    PROVE  TypeOK'
<1> DEFINE r == [NoRecovery EXCEPT !.skip = (conflict = "push")]
<1>1. r \in Recoveries
  BY DEF NoRecovery, Recoveries
<1>2. /\ pc' \in [Tasks -> PCs] /\ call' \in [Tasks -> CallStates]
      /\ reg' \in [Tasks -> KeyOrNone] /\ initializationPromise' \in Inits \cup {None}
      /\ joined' \in [Inits -> SUBSET {"boot", "retry", "rec"}]
      /\ recovery' \in Recoveries
  <2>1. CASE initializationPromise = None
    <3>1. CancelDone(r)
      BY <2>1 DEF Recover
    <3> HIDE DEF r
    <3> QED  BY <1>1, <3>1, CancelDoneType
  <2>2. CASE initializationPromise # None
    BY <1>1, <2>2 DEF Recover, TypeOK, PCs
  <2> QED  BY <2>1, <2>2
<1>3. UNCHANGED <<device, token, session, history, bounds>>
  BY DEF Recover, bounds
<1> QED  BY <1>2, <1>3 DEF TypeOK, Recoveries, device, session, history, bounds

LEMMA RecoveringType == ASSUME TypeOK, Recovering PROVE TypeOK'
<1> DEFINE Moved == /\ pc' \in [Tasks -> PCs] /\ call' \in [Tasks -> CallStates]
                    /\ reg' \in [Tasks -> KeyOrNone] /\ initializationPromise' \in Inits \cup {None}
                    /\ joined' \in [Inits -> SUBSET {"boot", "retry", "rec"}]
           Kept == /\ recovery' \in Recoveries /\ faults' \in 0..MaxFaults
                   /\ {keychain', cachedPrivateKey', identityKeyPublic'} \subseteq KeyOrNone
                   /\ bundleUploaded' \in BOOLEAN /\ token' \in {"none", "live", "dead"}
                   /\ auth' \in BOOLEAN /\ conflict' \in {"none", "local", "push"}
                   /\ deferred' \in BOOLEAN /\ torn' \in BOOLEAN /\ loggedOut' \in BOOLEAN
<1>1. SUFFICES Moved /\ Kept
  BY DEF Recovering, TypeOK, Recoveries
<1>2. /\ recovery \in Recoveries /\ recovery.skip \in BOOLEAN /\ NoKey \in KeyOrNone
      /\ pc["rec"] \in PCs /\ "rec" \in Tasks
  BY NamesDistinct DEF TypeOK, Recoveries, KeyOrNone
<1>3. \A s : s \in {"check", "reset", "wipe", "wipeDb", "login", "loginAgain", "recheck",
                    "resetAgain", "off"} => s \in PCs
  BY DEF PCs
<1>4. CASE Cancelled
  <2>1. Moved /\ recovery' \in Recoveries
    BY <1>2, <1>4, CancelDoneType DEF Cancelled
  <2> QED  BY <1>4, <2>1 DEF Cancelled, TypeOK, device, session, history
<1>5. CASE Checked
  <2>1. Moved /\ recovery' \in Recoveries
    BY <1>2, <1>3, <1>5, RecGoesToType, RecRequestType, WipeOrLoginType, RecFailsType DEF Checked
  <2> QED  BY <1>5, <2>1 DEF Checked, TypeOK, device, session, history
<1>6. CASE Reset
  <2>1. Moved /\ recovery' \in Recoveries
    BY <1>2, <1>6, WipeOrLoginType, RecFailsType DEF Reset
  <2> QED  BY <1>6, <2>1 DEF Reset, TypeOK, device, session, history
<1>7. CASE WipeKeychain
  <2>1. Moved
    BY <1>3, <1>7, RecGoesToType, IdleType DEF WipeKeychain
  <2>2. keychain' \in KeyOrNone /\ faults' \in 0..MaxFaults
    BY <1>2, <1>7, FaultType DEF WipeKeychain, RemoveSecureItem, TypeOK
  <2> QED  BY <1>2, <1>7, <2>1, <2>2 DEF WipeKeychain, TypeOK, session, history
<1>8. CASE WipeDatabase
  <2>1. CASE RowsDeleted
    <3>1. CASE RecGoesTo("login", Request("login", NoKey, token)) /\ UNCHANGED <<recovery, faults>>
      <4>1. Moved
        BY <1>3, <3>1, RecGoesToType, RecRequestType
      <4> QED  BY <1>2, <1>8, <2>1, <3>1, <4>1 DEF WipeDatabase, RowsDeleted, TypeOK, session
    <3>2. CASE Fault /\ RecFails
      <4>1. Moved /\ recovery' \in Recoveries /\ faults' \in 0..MaxFaults
        BY <3>2, RecFailsType, FaultType DEF TypeOK
      <4> QED  BY <1>2, <1>8, <2>1, <4>1 DEF WipeDatabase, RowsDeleted, TypeOK, session
    <3> QED  BY <1>8, <3>1, <3>2 DEF WipeDatabase
  <2>2. CASE ~RowsDeleted
    <3>1. Moved /\ recovery' \in Recoveries /\ faults' \in 0..MaxFaults
      BY <1>8, <2>2, RecFailsType, FaultType DEF WipeDatabase, TypeOK
    <3> QED  BY <1>2, <1>8, <2>2, <3>1 DEF WipeDatabase, TypeOK, session
  <2> QED  BY <2>1, <2>2
<1>9. CASE LoggedIn
  <2>1. Moved
    BY <1>3, <1>9, RecGoesToType, RecRequestType, EnsureRecType DEF LoggedIn
  <2>2. recovery' \in Recoveries
    BY <1>2, <1>9 DEF LoggedIn, Recoveries
  <2> QED  BY <1>9, <2>1, <2>2 DEF LoggedIn, TypeOK, device, history
<1>10. CASE LoginFails
  <2>1. Moved /\ recovery' \in Recoveries
    <3>1. CASE RecFails
      BY <3>1, RecFailsType
    <3>2. CASE ~RecFails
      <4>1. /\ RecGoesTo(pc["rec"], Request("login", NoKey, token))
            /\ recovery' = [recovery EXCEPT !.again = TRUE]
        BY <1>10, <3>2 DEF LoginFails
      <4>2. recovery' \in Recoveries
        BY <1>2, <4>1 DEF Recoveries
      <4> QED  BY <1>2, <4>1, <4>2, RecGoesToType, RecRequestType
    <3> QED  BY <3>1, <3>2
  <2> QED  BY <1>10, <2>1 DEF LoginFails, TypeOK, device, session, history
<1>11. CASE Rechecked
  <2>1. Moved
    BY <1>3, <1>11, RecGoesToType, RecRequestType, EnsureRecType DEF Rechecked
  <2> QED  BY <1>2, <1>11, <2>1 DEF Rechecked, TypeOK, device, session, history
<1>12. CASE ResetAgain
  <2>1. Moved
    BY <1>3, <1>12, RecGoesToType, RecRequestType, EnsureRecType DEF ResetAgain
  <2> QED  BY <1>2, <1>12, <2>1 DEF ResetAgain, TypeOK, device, session, history
<1>13. CASE Recovered
  <2>1. Moved
    BY <1>3, <1>13, RecGoesToType, IdleType DEF Recovered
  <2>2. recovery' \in Recoveries /\ conflict' \in {"none", "local", "push"}
    BY <1>2, <1>13 DEF Recovered, Recoveries, TypeOK
  <2> QED  BY <1>13, <2>1, <2>2 DEF Recovered, TypeOK, device, history
<1> QED  BY <1>4, <1>5, <1>6, <1>7, <1>8, <1>9, <1>10, <1>11, <1>12, <1>13 DEF Recovering

LEMMA LaunchType ==
    ASSUME TypeOK, Launch
    PROVE  /\ cachedPrivateKey' \in KeyOrNone
           /\ auth' \in BOOLEAN /\ conflict' \in {"none", "local", "push"} /\ deferred' \in BOOLEAN
           /\ pc' \in [Tasks -> PCs] /\ call' \in [Tasks -> CallStates]
           /\ reg' \in [Tasks -> KeyOrNone] /\ initializationPromise' \in Inits \cup {None}
           /\ joined' \in [Inits -> SUBSET {"boot", "retry", "rec"}]
           /\ recovery' \in Recoveries /\ loggedOut' \in BOOLEAN
<1>1. pc' \in [Tasks -> PCs] /\ call' \in [Tasks -> CallStates] /\ reg' \in [Tasks -> KeyOrNone]
  BY IdleType DEF Launch, PCs, KeyOrNone
<1>2. recovery' \in Recoveries
  BY DEF Launch, NoRecovery, Recoveries
<1>3. /\ initializationPromise' \in Inits \cup {None}
      /\ joined' \in [Inits -> SUBSET {"boot", "retry", "rec"}]
  BY DEF Launch
<1> QED  BY <1>1, <1>2, <1>3 DEF Launch, TypeOK

LEMMA EnvironmentType == ASSUME TypeOK, Environment PROVE TypeOK'
<1>1. NoKey \in KeyOrNone
  BY DEF KeyOrNone
<1>2. CASE Restart
  <2>1. faults' \in 0..MaxFaults
    BY <1>2, FaultType DEF Restart, TypeOK
  <2> QED  BY <1>2, <2>1, LaunchType DEF Restart, TypeOK, Recoveries
<1>3. CASE Relaunch
  BY <1>3, LaunchType DEF Relaunch, TypeOK, Recoveries, bounds
<1>4. CASE Reinstall
  <2>1. faults' \in 0..MaxFaults
    BY <1>4, FaultType DEF Reinstall, TypeOK
  <2> QED  BY <1>1, <1>4, <2>1, LaunchType DEF Reinstall, TypeOK, Recoveries
<1>5. CASE Logout
  BY <1>1, <1>5 DEF Logout, TypeOK, inits, bounds
<1>6. CASE PushArrives
  <2>1. conflict' \in {"none", "local", "push"} /\ push' \in BOOLEAN
    BY <1>6 DEF PushArrives, TypeOK
  <2> QED  BY <1>6, <2>1 DEF PushArrives, TypeOK, device, inits, history, bounds
<1>7. CASE OtherDevice
  <2>1. others' \in 0..MaxOthers
    BY <1>7, BoundsAssumption DEF OtherDevice, TypeOK
  <2>2. /\ serverKey' \in KeyOrNone /\ token' \in {"none", "live", "dead"}
        /\ call' \in [Tasks -> CallStates] /\ push' \in BOOLEAN
    BY <1>1, <1>7, FreshType, RevokedType DEF OtherDevice, RevokedToken, TypeOK, KeyOrNone
  <2>3. recovery' \in Recoveries
    BY <1>7 DEF OtherDevice, Recoveries, TypeOK
  <2> QED  BY <1>7, <2>1, <2>2, <2>3
    DEF OtherDevice, TypeOK, Recoveries, device, session, inits, history
<1> QED  BY <1>2, <1>3, <1>4, <1>5, <1>6, <1>7 DEF Environment

LEMMA TypeStep == TypeOK /\ [Next]_vars => TypeOK'
<1> SUFFICES ASSUME TypeOK, [Next]_vars PROVE TypeOK'
  OBVIOUS
<1>1. CASE Calls
  BY <1>1, ServeType, LoseType, UnauthorizedType DEF Calls
<1>2. CASE Initializing
  BY <1>2, InitializeType, InitEndsType DEF Initializing
<1>3. CASE Bootstrapping
  BY <1>3, ColdStartType, SignedInType, NotSignedInType, BootstrappedType, RetryRestoredType,
     RestoreType DEF Bootstrapping
<1>4. CASE Recovering
  BY <1>4, RecoveringType
<1>5. CASE UserActs
  BY <1>5, LoginUserType, RetryIdentityRestoreType, RecoverType DEF UserActs
<1>6. CASE Environment
  BY <1>6, EnvironmentType
<1>7. CASE UNCHANGED vars
  BY <1>7 DEF TypeOK, vars, device, session, inits, history, bounds
<1> QED  BY <1>1, <1>2, <1>3, <1>4, <1>5, <1>6, <1>7 DEF Next

\* Every reachable state is well typed: each task is at one of its steps, with a
\* request or an answer of its own (all of IdentityKeys).
THEOREM TypeCorrect == Spec => []TypeOK
<1>1. Init => TypeOK
  BY InitType
<1>2. TypeOK /\ [Next]_vars => TypeOK'
  BY TypeStep
<1> QED  BY <1>1, <1>2, PTL DEF Spec

-----------------------------------------------------------------------------
(* The inductive invariant.                                                 *)

\* The steps of an initialization whose key pair is there, or that has given up.
Late == {"upload", "maintain", "replenish", "done", "failed", "conflicted"}

\* The steps of a recovery that no initialization runs beside.
RecAlone == {"cancelled", "check", "reset", "wipe", "wipeDb", "login", "loginAgain", "recheck",
             "resetAgain", "done", "failed", "conflicted"}

Quiet == \A i \in Inits : pc[i] = "off"
Settling == \A i \in Inits : pc[i] \in Late \cup {"off"}

\* What each task may be doing.
Steps ==
    /\ \A i \in Inits : pc[i] \in Late \cup {"off", "saving", "provision"}
    /\ pc["boot"] \in {"off", "cold", "verify", "signin", "probe", "clearing", "provision",
                       "loading", "deferred"}
    /\ pc["retry"] \in {"off", "probe", "clearing", "provision", "restored", "init"}
    /\ pc["rec"] \in RecAlone \cup {"off", "cancel", "init"}

\* A recovery runs alone, and the two restores exclude each other.
Alone ==
    /\ pc["rec"] # "off" => auth /\ pc["boot"] = "off" /\ pc["retry"] = "off"
    /\ pc["retry"] # "off" => pc["boot"] \in {"off", "deferred"}
    /\ pc["boot"] \in {"cold", "verify", "signin"} => ~auth
    /\ pc["boot"] \in {"probe", "clearing", "provision", "loading"} => ~deferred
    /\ pc["rec"] \in {"recheck", "resetAgain"} => ~deferred

\* No key is generated while another task may touch the keys.
Settled ==
    /\ pc["boot"] \notin {"off", "deferred"} => Settling
    /\ pc["boot"] \in {"cold", "verify"} => Quiet
    /\ pc["retry"] \notin {"off", "init"} => Settling
    /\ deferred => Settling
    /\ pc["rec"] \in RecAlone => Quiet

\* There is one initialization, and a recovery waits for it.
OneInitialization ==
    /\ \A i \in Inits : pc[i] # "off" =>
         initializationPromise = i \/ (initializationPromise = None /\ pc["rec"] = "cancel")
    /\ \A i, j \in Inits : pc[i] # "off" /\ pc[j] # "off" => i = j
    /\ initializationPromise # None => pc[initializationPromise] # "off"
    /\ \A i \in Inits : "rec" \in joined[i] => pc[i] # "off" /\ pc["rec"] \in {"cancel", "init"}
    /\ \A i \in Inits : "retry" \in joined[i] => pc[i] # "off" /\ pc["retry"] = "init"

Exclusive == Steps /\ Alone /\ Settled /\ OneInitialization

\* A recovery begins while a bootstrap or a retry has still work to do.
EarlyRecovery == pc["rec"] = "off" /\ pc'["rec"] # "off" /\ \E t \in Restorers : pc[t] # "off"

\* A login begins while a retry has still work to do, or while a key is being generated.
EarlyLogin ==
    /\ pc["boot"] = "off" /\ pc'["boot"] = "signin"
    /\ pc["retry"] # "off" \/ \E i \in Inits : pc[i] \in {"saving", "provision"}

\* The two steps after which Exclusive need not hold.
Overlaps == EarlyRecovery \/ EarlyLogin

LEMMA StutterAlone == UNCHANGED vars => ~Overlaps
BY DEF vars, Overlaps, EarlyRecovery, EarlyLogin

LEMMA ExclusiveInit == Init => Exclusive
BY NamesDistinct DEF Init, Exclusive, Steps, Alone, Settled, OneInitialization, Quiet, Settling, Tasks

\* Nothing that Exclusive is about changes.
LEMMA ExclusiveKept ==
    ASSUME Exclusive, UNCHANGED <<pc, auth, deferred, initializationPromise, joined>>
    PROVE  Exclusive'
BY DEF Exclusive, Steps, Alone, Settled, OneInitialization, Quiet, Settling

\* The session ends, in a state in which no recovery runs.
LEMMA ExclusiveSignedOut ==
    ASSUME Exclusive, UNCHANGED <<pc, initializationPromise, joined>>, pc["rec"] = "off",
           auth' = FALSE, deferred' = FALSE
    PROVE  Exclusive'
BY DEF Exclusive, Steps, Alone, Settled, OneInitialization, Quiet, Settling

\* An initialization takes a step.
LEMMA ExclusiveInitGoes ==
    ASSUME TypeOK, Exclusive, NEW i \in Inits, NEW s \in Late \cup {"provision"},
           pc' = [pc EXCEPT ![i] = s], UNCHANGED <<auth, deferred, initializationPromise, joined>>,
           pc[i] # "off", pc[i] \in Late => s \in Late
    PROVE  Exclusive'
<1>1. i \in Tasks /\ i # "boot" /\ i # "retry" /\ i # "rec" /\ s # "off"
  BY NamesDistinct DEF Late
<1>2. /\ pc'["boot"] = pc["boot"] /\ pc'["retry"] = pc["retry"] /\ pc'["rec"] = pc["rec"]
      /\ pc'[i] = s /\ \A j \in Inits : j # i => pc'[j] = pc[j]
  BY <1>1, NamesDistinct DEF TypeOK
<1>3. Settling => Settling'
  BY <1>2 DEF Exclusive, Steps, Settling, Late
<1>4. ~Quiet
  BY DEF Quiet
<1>5. Steps' /\ Alone'
  BY <1>2 DEF Exclusive, Steps, Alone, Late
<1>6. Settled'
  BY <1>2, <1>3, <1>4 DEF Exclusive, Settled
<1>7. OneInitialization'
  BY <1>1, <1>2, NamesDistinct DEF Exclusive, OneInitialization, TypeOK
<1> QED  BY <1>5, <1>6, <1>7 DEF Exclusive

\* The recovery takes a step beside which nothing runs, or ends.
LEMMA ExclusiveRecGoes ==
    ASSUME TypeOK, Exclusive, NEW s \in RecAlone \cup {"off"}, pc["rec"] \in RecAlone,
           pc' = [pc EXCEPT !["rec"] = s], UNCHANGED <<initializationPromise, joined>>,
           auth' \in {auth, TRUE}, deferred' \in {deferred, FALSE},
           s \in {"recheck", "resetAgain"} => ~deferred'
    PROVE  Exclusive'
<1>1. /\ pc'["boot"] = pc["boot"] /\ pc'["retry"] = pc["retry"] /\ pc'["rec"] = s
      /\ \A j \in Inits : pc'[j] = pc[j]
  BY NamesDistinct DEF TypeOK
<1>2. pc["rec"] \notin {"off", "cancel", "init"}
  BY DEF RecAlone
<1>3. Quiet /\ Settling /\ auth /\ pc["boot"] = "off" /\ pc["retry"] = "off"
  BY <1>2 DEF Exclusive, Settled, Alone, Quiet, Settling
<1>4. Quiet' /\ Settling'
  BY <1>1, <1>3 DEF Quiet, Settling
<1>5. Steps' /\ Alone' /\ Settled'
  BY <1>1, <1>3, <1>4 DEF Exclusive, Steps, Alone, Settled
<1>6. OneInitialization'
  BY <1>1, <1>2, <1>3, NamesDistinct DEF Exclusive, OneInitialization, Quiet, TypeOK
<1> QED  BY <1>5, <1>6 DEF Exclusive

\* A task starts an initialization or joins the one there is.
LEMMA EnsureExclusive ==
    ASSUME TypeOK, Exclusive, NEW c \in {"boot", "retry", "rec"}, NEW next, NEW tok,
           EnsureKeysInitialized(c, next, tok),
           auth' \in {auth, TRUE}, deferred' = FALSE,
           \/ c = "boot" /\ pc["boot"] = "loading" /\ next = "off" /\ auth' = auth
           \/ c = "retry" /\ pc["retry"] = "restored" /\ next = "init" /\ auth' = auth
           \/ c = "rec" /\ pc["rec"] \in RecAlone /\ next = "init"
    PROVE  Exclusive'
<1>1. c \in Tasks /\ "rec" \in Tasks /\ None \notin Inits
  BY NamesDistinct, InitsAssumption
<1>2. /\ pc["boot"] = "loading" => pc["retry"] = "off" /\ pc["rec"] = "off"
      /\ pc["retry"] = "restored" => pc["boot"] \in {"off", "deferred"} /\ pc["rec"] = "off"
      /\ pc["rec"] \in RecAlone => auth /\ pc["boot"] = "off" /\ pc["retry"] = "off" /\ Quiet
  BY DEF Exclusive, Alone, Settled, RecAlone
<1>3. pc["rec"] # "cancel" /\ (c = "rec" => pc["rec"] # "init")
  BY <1>2 DEF RecAlone
<1>4. CASE initializationPromise # None
  <2>1. /\ joined' = [joined EXCEPT ![initializationPromise] = @ \cup {c}]
        /\ pc' = [pc EXCEPT ![c] = next] /\ UNCHANGED initializationPromise
    BY <1>4 DEF EnsureKeysInitialized
  <2>2. initializationPromise \in Inits /\ pc[initializationPromise] # "off" /\ ~Quiet
    BY <1>4 DEF Exclusive, OneInitialization, TypeOK, Quiet
  <2>3. c # "rec"
    BY <1>2, <2>2
  <2>4. /\ pc'[c] = next /\ \A t \in Tasks : t # c => pc'[t] = pc[t]
        /\ \A i \in Inits : pc'[i] = pc[i]
    BY <1>1, <2>1, NamesDistinct DEF TypeOK
  <2>5. Quiet' = Quiet /\ Settling' = Settling
    BY <2>4 DEF Quiet, Settling
  <2>6. Steps' /\ Alone' /\ Settled'
    BY <1>2, <2>2, <2>3, <2>4, <2>5, NamesDistinct DEF Exclusive, Steps, Alone, Settled
  <2>7. \A i \in Inits : "rec" \in joined'[i] => "rec" \in joined[i]
    BY <2>1, <2>2, <2>3 DEF TypeOK
  <2>8. OneInitialization'
    BY <2>1, <2>2, <2>3, <2>4, <2>7, NamesDistinct DEF Exclusive, OneInitialization
  <2> QED  BY <2>6, <2>8 DEF Exclusive
<1>5. CASE initializationPromise = None
  <2>1. PICK i \in Inits :
          /\ pc[i] = "off" /\ initializationPromise' = i
          /\ joined' = [joined EXCEPT ![i] = {c}]
          /\ pc' = [pc EXCEPT ![c] = next, ![i] = FirstStep]
    BY <1>5 DEF EnsureKeysInitialized
  <2>2. Quiet
    BY <1>1, <1>3, <1>5 DEF Exclusive, OneInitialization, Quiet
  <2>3. /\ pc'[c] = next /\ pc'[i] = FirstStep /\ FirstStep \in Late \cup {"saving"}
        /\ \A t \in Tasks : t # c /\ t # i => pc'[t] = pc[t]
    BY <1>1, <2>1, NamesDistinct DEF TypeOK, FirstStep, Late
  <2>4. FirstStep # "off" /\ \A j \in Inits : j # i => pc'[j] = "off"
    BY <2>2, <2>3, NamesDistinct DEF Quiet, Late
  <2>5. Steps'
    BY <2>3, <2>4, NamesDistinct DEF Exclusive, Steps
  <2>6. Alone'
    BY <1>2, <2>3, NamesDistinct DEF Exclusive, Alone
  <2>7. /\ pc'["boot"] \in {"off", "deferred"} /\ pc'["retry"] \in {"off", "init"}
        /\ pc'["rec"] \in {"off", "init"}
    BY <1>2, <2>3, NamesDistinct DEF Exclusive, Steps, Alone
  <2>8. Settled'
    BY <2>7 DEF Settled, RecAlone
  <2>9. OneInitialization'
    <3>1. \A j \in Inits : j # i => joined'[j] = joined[j]
      BY <2>1 DEF TypeOK
    <3>2. \A j \in Inits : "rec" \notin joined[j]
      BY <2>2 DEF Exclusive, OneInitialization, Quiet
    <3>3. "rec" \in joined'[i] => c = "rec" /\ pc'["rec"] = "init"
      BY <2>1, <2>3 DEF TypeOK
    <3>4. \A j \in Inits : "retry" \notin joined[j]
      BY <2>2 DEF Exclusive, OneInitialization, Quiet
    <3>5. "retry" \in joined'[i] => c = "retry" /\ pc'["retry"] = "init"
      BY <2>1, <2>3 DEF TypeOK
    <3> QED  BY <1>1, <2>1, <2>3, <2>4, <3>1, <3>2, <3>3, <3>4, <3>5 DEF OneInitialization
  <2> QED  BY <2>5, <2>6, <2>8, <2>9 DEF Exclusive
<1> QED  BY <1>4, <1>5

LEMMA ExclusiveInitEnds ==
    ASSUME TypeOK, Exclusive, NEW i \in Inits, InitEnds(i)
    PROVE  Exclusive'
<1>1. pc[i] \in {"done", "failed", "conflicted"} /\ pc[i] # "off" /\ i # None /\ i \in Tasks
  BY NamesDistinct DEF InitEnds
<1>2. \A j \in Inits : j # i => pc[j] = "off" /\ "rec" \notin joined[j]
  BY <1>1 DEF Exclusive, OneInitialization
<1>3. /\ pc'[i] = "off" /\ pc'["boot"] = pc["boot"]
      /\ \A j \in Inits : j # i => pc'[j] = pc[j]
      /\ pc'["retry"] \in {pc["retry"], "off"}
      /\ pc'["rec"] = IF "rec" \notin joined[i] THEN pc["rec"]
                      ELSE IF pc["rec"] = "cancel" THEN "cancelled" ELSE pc[i]
  <2>1. \A t \in Tasks : pc'[t] =
                IF t = i \/ (t = "retry" /\ t \in joined[i]) THEN "off"
                ELSE IF t # "rec" \/ t \notin joined[i] THEN pc[t]
                ELSE IF pc[t] = "cancel" THEN "cancelled" ELSE pc[i]
    BY DEF InitEnds
  <2> QED  BY <1>1, <2>1, NamesDistinct
<1>4. Quiet' /\ Settling'
  BY <1>2, <1>3 DEF Quiet, Settling
<1>5. /\ "rec" \in joined[i] => pc["rec"] \in {"cancel", "init"}
      /\ joined' = [joined EXCEPT ![i] = {}] /\ auth' = auth /\ deferred' = deferred
      /\ initializationPromise' =
           IF initializationPromise = i THEN None ELSE initializationPromise
  BY DEF Exclusive, OneInitialization, InitEnds
<1>6. Steps'
  BY <1>1, <1>3, <1>4, <1>5 DEF Exclusive, Steps, Settling, RecAlone
<1>7. Alone' /\ Settled'
  BY <1>1, <1>3, <1>4, <1>5 DEF Exclusive, Alone, Settled
<1>8. OneInitialization'
  <2>1. \A j \in Inits : pc'[j] = "off"
    BY <1>4 DEF Quiet
  <2>2. \A j \in Inits : "rec" \notin joined'[j]
    BY <1>2, <1>5 DEF TypeOK
  <2>3. \A j \in Inits : "retry" \notin joined'[j]
    BY <1>1, <1>5 DEF Exclusive, OneInitialization, TypeOK
  <2>4. initializationPromise' = None
    BY <1>1, <1>2, <1>5 DEF Exclusive, OneInitialization, TypeOK
  <2> QED  BY <2>1, <2>2, <2>3, <2>4 DEF OneInitialization
<1> QED  BY <1>6, <1>7, <1>8 DEF Exclusive

\* A restore goes on, and is over or deferred in the end.
LEMMA ExclusiveRestoreGoes ==
    ASSUME TypeOK, Exclusive, NEW t \in Restorers, NEW s, pc' = [pc EXCEPT ![t] = s],
           UNCHANGED <<auth, initializationPromise, joined>>,
           pc[t] \in {"probe", "clearing", "provision"},
           \/ s \in {"clearing", "provision"} /\ deferred' = deferred
           \/ s = (IF t = "boot" THEN "loading" ELSE "restored") /\ deferred' = deferred
           \/ s = (IF t = "boot" THEN "deferred" ELSE "off") /\ deferred' = (deferred \/ t = "boot")
    PROVE  Exclusive'
<1>1. /\ t \in Tasks /\ pc'[t] = s /\ \A u \in Tasks : u # t => pc'[u] = pc[u]
      /\ \A i \in Inits : pc'[i] = pc[i]
  BY NamesDistinct DEF TypeOK, Restorers
<1>2. Settling /\ Settling' /\ (Quiet => Quiet')
  BY <1>1 DEF Exclusive, Settled, Settling, Quiet, Restorers
<1>3. Steps'
  BY <1>1, NamesDistinct DEF Exclusive, Steps, Restorers
<1>4. Alone'
  BY <1>1, NamesDistinct DEF Exclusive, Alone, Restorers
<1>5. Settled'
  BY <1>1, <1>2, NamesDistinct DEF Exclusive, Settled, Restorers
<1>6. OneInitialization'
  BY <1>1, NamesDistinct DEF Exclusive, OneInitialization, TypeOK, Restorers
<1> QED  BY <1>3, <1>4, <1>5, <1>6 DEF Exclusive

LEMMA ExclusiveRestore ==
    ASSUME TypeOK, Exclusive, NEW t \in Restorers, Restore(t)
    PROVE  Exclusive'
<1>1. /\ pc[t] \in {"probe", "clearing", "provision"}
      /\ UNCHANGED <<auth, initializationPromise, joined>>
  BY DEF Restore, RestoreProbed, RestoreCleared, RestoreProvisioned, inits
<1>2. PICK s : /\ pc' = [pc EXCEPT ![t] = s]
               /\ \/ s \in {"clearing", "provision"} /\ deferred' = deferred
                  \/ s = (IF t = "boot" THEN "loading" ELSE "restored") /\ deferred' = deferred
                  \/ /\ s = (IF t = "boot" THEN "deferred" ELSE "off")
                     /\ deferred' = (deferred \/ t = "boot")
  BY DEF Restore, RestoreProbed, RestoreCleared, RestoreProvisioned, RestoreEnds, RestoreDeferred
<1> QED  BY <1>1, <1>2, ExclusiveRestoreGoes

\* The bootstrap takes a step before its restore.
LEMMA ExclusiveBootGoes ==
    ASSUME TypeOK, Exclusive, NEW s, pc' = [pc EXCEPT !["boot"] = s],
           UNCHANGED <<initializationPromise, joined>>,
           \/ pc["boot"] \in {"cold", "verify", "signin", "deferred"} /\ s = "off"
                /\ UNCHANGED <<auth, deferred>>
           \/ pc["boot"] = "cold" /\ s = "verify" /\ UNCHANGED <<auth, deferred>>
           \/ pc["boot"] \in {"verify", "signin"} /\ s \in {"probe", "loading"}
                /\ auth' = TRUE /\ deferred' = FALSE
    PROVE  Exclusive'
<1>1. /\ pc'["boot"] = s /\ \A u \in Tasks : u # "boot" => pc'[u] = pc[u]
      /\ \A i \in Inits : pc'[i] = pc[i]
  BY NamesDistinct DEF TypeOK
<1>2. Settling' = Settling /\ Quiet' = Quiet
  BY <1>1 DEF Settling, Quiet
<1>3. Steps' /\ Alone'
  BY <1>1, NamesDistinct DEF Exclusive, Steps, Alone
<1>4. Settled'
  BY <1>1, <1>2, NamesDistinct DEF Exclusive, Settled, Alone
<1>5. OneInitialization'
  BY <1>1, NamesDistinct DEF Exclusive, OneInitialization, TypeOK
<1> QED  BY <1>3, <1>4, <1>5 DEF Exclusive

LEMMA ExclusiveLoginUser ==
    ASSUME TypeOK, Exclusive, LoginUser, ~EarlyLogin
    PROVE  Exclusive'
<1>0. pc["boot"] = "off" /\ pc' = [pc EXCEPT !["boot"] = "signin"] /\ pc'["boot"] = "signin"
  BY NamesDistinct DEF LoginUser, TypeOK
<1>1. /\ pc["boot"] = "off" /\ ~auth /\ pc["retry"] = "off"
      /\ \A i \in Inits : pc[i] \notin {"saving", "provision"}
      /\ pc' = [pc EXCEPT !["boot"] = "signin"]
      /\ UNCHANGED <<auth, deferred, initializationPromise, joined>>
  BY <1>0 DEF LoginUser, EarlyLogin, session, inits
<1>2. /\ pc'["boot"] = "signin" /\ \A u \in Tasks : u # "boot" => pc'[u] = pc[u]
      /\ \A i \in Inits : pc'[i] = pc[i]
  BY <1>1, NamesDistinct DEF TypeOK
<1>3. Settling' /\ Settling /\ Quiet' = Quiet /\ pc["rec"] = "off"
  BY <1>1, <1>2 DEF Settling, Quiet, Exclusive, Steps, Alone
<1>4. Steps' /\ Alone'
  BY <1>1, <1>2, <1>3, NamesDistinct DEF Exclusive, Steps, Alone
<1>5. Settled'
  BY <1>1, <1>2, <1>3, NamesDistinct DEF Exclusive, Settled, RecAlone
<1>6. OneInitialization'
  BY <1>1, <1>2, NamesDistinct DEF Exclusive, OneInitialization, TypeOK
<1> QED  BY <1>4, <1>5, <1>6 DEF Exclusive

LEMMA ExclusiveRetry ==
    ASSUME TypeOK, Exclusive, RetryIdentityRestore
    PROVE  Exclusive'
<1>1. /\ deferred /\ auth /\ pc["rec"] = "off" /\ pc["retry"] = "off"
      /\ \E s \in {"probe", "restored"} : pc' = [pc EXCEPT !["retry"] = s]
      /\ UNCHANGED <<auth, deferred, initializationPromise, joined>>
  BY DEF RetryIdentityRestore, RestoreStarts, RestoreEnds, session, inits
<1>2. /\ pc'["retry"] \in {"probe", "restored"} /\ \A u \in Tasks : u # "retry" => pc'[u] = pc[u]
      /\ \A i \in Inits : pc'[i] = pc[i]
  BY <1>1, NamesDistinct DEF TypeOK
<1>3. Settling' /\ Quiet' = Quiet /\ pc["boot"] \in {"off", "deferred"}
  BY <1>1, <1>2 DEF Settling, Quiet, Exclusive, Settled, Steps, Alone
<1>4. Steps' /\ Alone'
  BY <1>1, <1>2, <1>3, NamesDistinct DEF Exclusive, Steps, Alone
<1>5. Settled'
  BY <1>1, <1>2, <1>3, NamesDistinct DEF Exclusive, Settled, RecAlone
<1>6. OneInitialization'
  BY <1>1, <1>2, NamesDistinct DEF Exclusive, OneInitialization, TypeOK
<1> QED  BY <1>4, <1>5, <1>6 DEF Exclusive

LEMMA RecoversAlone ==
    ASSUME TypeOK, Recover, ~EarlyRecovery
    PROVE  pc["boot"] = "off" /\ pc["retry"] = "off"
<1>1. pc["rec"] = "off" /\ pc'["rec"] # "off"
  BY NamesDistinct DEF Recover, CancelDone, RecGoesTo, WipeOrLogin, TypeOK
<1> QED  BY <1>1 DEF EarlyRecovery, Restorers

LEMMA ExclusiveRecover ==
    ASSUME TypeOK, Exclusive, Recover, ~EarlyRecovery
    PROVE  Exclusive'
<1>1. /\ auth /\ pc["rec"] = "off" /\ pc["boot"] = "off" /\ pc["retry"] = "off"
      /\ UNCHANGED <<auth, deferred>>
  BY RecoversAlone DEF Recover, session
<1>2. CASE initializationPromise = None
  <2>1. Quiet
    BY <1>1, <1>2, NamesDistinct DEF Exclusive, OneInitialization, Quiet
  <2>2. PICK s \in {"check", "wipe", "login"} : pc' = [pc EXCEPT !["rec"] = s] /\ UNCHANGED inits
    BY <1>2 DEF Recover, CancelDone, RecGoesTo, WipeOrLogin
  <2>3. /\ pc'["rec"] = s /\ pc'["boot"] = "off" /\ pc'["retry"] = "off"
        /\ \A i \in Inits : pc'[i] = "off"
    BY <1>1, <2>1, <2>2, NamesDistinct DEF TypeOK, Quiet
  <2>4. Quiet' /\ Settling'
    BY <2>3 DEF Quiet, Settling
  <2>5. Steps' /\ Alone' /\ Settled'
    BY <1>1, <2>3, <2>4 DEF Exclusive, Steps, Alone, Settled, Settling, RecAlone
  <2>6. OneInitialization'
    BY <1>2, <2>1, <2>2, <2>3 DEF Exclusive, OneInitialization, inits, Quiet
  <2> QED  BY <2>5, <2>6 DEF Exclusive
<1>3. CASE initializationPromise # None
  <2> DEFINE i == initializationPromise
  <2>1. /\ i \in Inits /\ pc[i] # "off" /\ initializationPromise' = None
        /\ pc' = [pc EXCEPT !["rec"] = "cancel"]
        /\ joined' = [joined EXCEPT ![i] = @ \cup {"rec"}]
    BY <1>3 DEF Recover, Exclusive, OneInitialization, TypeOK
  <2>2. /\ pc'["rec"] = "cancel" /\ pc'["boot"] = "off" /\ pc'["retry"] = "off"
        /\ \A j \in Inits : pc'[j] = pc[j]
    BY <1>1, <2>1, NamesDistinct DEF TypeOK
  <2>3. Quiet' = Quiet /\ Settling' = Settling
    BY <2>2 DEF Quiet, Settling
  <2>4. Steps' /\ Alone' /\ Settled'
    BY <1>1, <2>2, <2>3 DEF Exclusive, Steps, Alone, Settled, RecAlone
  <2>5. \A j \in Inits : "rec" \notin joined[j]
    BY <1>1 DEF Exclusive, OneInitialization
  <2>6. \A j \in Inits : "rec" \in joined'[j] => j = i
    BY <2>1, <2>5 DEF TypeOK
  <2>7. OneInitialization'
    BY <2>1, <2>2, <2>6 DEF Exclusive, OneInitialization
  <2> QED  BY <2>4, <2>7 DEF Exclusive
<1> QED  BY <1>2, <1>3

LEMMA ExclusiveLaunch == ASSUME Launch PROVE Exclusive'
<1>1. /\ pc'["boot"] = "cold" /\ pc'["retry"] = "off" /\ pc'["rec"] = "off"
      /\ \A i \in Inits : pc'[i] = "off"
  BY NamesDistinct DEF Launch
<1>2. /\ auth' = FALSE /\ deferred' = FALSE /\ initializationPromise' = None
      /\ joined' = [i \in Inits |-> {}]
  BY DEF Launch
<1> QED  BY <1>1, <1>2
  DEF Exclusive, Steps, Alone, Settled, OneInitialization, Quiet, Settling, RecAlone

LEMMA ExclusiveRecovering == ASSUME TypeOK, Exclusive, Recovering PROVE Exclusive'
<1>1. pc["rec"] \in RecAlone
  BY DEF Recovering, Cancelled, Checked, Reset, WipeKeychain, WipeDatabase, LoggedIn, LoginFails,
         Rechecked, ResetAgain, Recovered, RecAlone
<1>2. auth' \in {auth, TRUE} /\ deferred' \in {deferred, FALSE}
  BY DEF Recovering, Cancelled, Checked, Reset, WipeKeychain, WipeDatabase, LoggedIn, LoginFails,
         Rechecked, ResetAgain, Recovered, session
<1>3. CASE \E s \in RecAlone \cup {"off"} : \E c :
             RecGoesTo(s, c) /\ (s \in {"recheck", "resetAgain"} => ~deferred')
  BY <1>1, <1>2, <1>3, ExclusiveRecGoes DEF RecGoesTo, inits
<1>4. CASE deferred' = FALSE /\ \E tok : EnsureKeysInitialized("rec", "init", tok)
  BY <1>1, <1>2, <1>4, EnsureExclusive
<1>5. CASE Cancelled \/ Checked \/ Reset \/ WipeKeychain \/ WipeDatabase \/ LoginFails \/ Recovered
  <2>1. \E s \in (RecAlone \cup {"off"}) \ {"recheck", "resetAgain"} : \E c : RecGoesTo(s, c)
    BY <1>5 DEF Cancelled, CancelDone, Checked, Reset, WipeKeychain, WipeDatabase, LoginFails,
                Recovered, WipeOrLogin, RecFails, RecAlone
  <2> QED  BY <1>3, <2>1
<1>6. CASE LoggedIn
  BY <1>3, <1>4, <1>6 DEF LoggedIn, RecAlone
<1>7. CASE Rechecked \/ ResetAgain
  <2>1. deferred' = FALSE
    BY <1>7 DEF Rechecked, ResetAgain, session, Exclusive, Alone, TypeOK
  <2> QED  BY <1>3, <1>4, <1>7, <2>1 DEF Rechecked, ResetAgain, RecAlone
<1> QED  BY <1>5, <1>6, <1>7 DEF Recovering

LEMMA ExclusiveStep == TypeOK /\ Exclusive /\ [Next]_vars /\ ~Overlaps => Exclusive'
<1> SUFFICES ASSUME TypeOK, Exclusive, [Next]_vars, ~EarlyRecovery, ~EarlyLogin PROVE Exclusive'
  BY DEF Overlaps
<1>1. CASE Calls
  <2>1. UNCHANGED <<pc, initializationPromise, joined>>
    BY <1>1 DEF Calls, Serve, Lose, Unauthorized, inits
  <2>2. \/ UNCHANGED <<auth, deferred>>
        \/ auth' = FALSE /\ deferred' = FALSE /\ pc["rec"] = "off"
    BY <1>1 DEF Calls, Serve, Lose, Unauthorized, session
  <2> QED  BY <2>1, <2>2, ExclusiveKept, ExclusiveSignedOut
<1>2. CASE Initializing
  <2>1. PICK i \in Inits : Initialize(i) \/ InitEnds(i)
    BY <1>2 DEF Initializing
  <2>2. CASE Initialize(i)
    <3>1. /\ UNCHANGED <<auth, deferred, initializationPromise, joined>> /\ pc[i] # "off"
          /\ \E s \in Late \cup {"provision"} :
               pc' = [pc EXCEPT ![i] = s] /\ (pc[i] \in Late => s \in Late)
      BY <2>2 DEF Initialize, InitSaved, InitProvisioned, InitUploaded, InitRotates,
                  InitMaintained, InitGoesTo, OutcomeOf, Late, session, inits
    <3> QED  BY <3>1, ExclusiveInitGoes
  <2> QED  BY <2>1, <2>2, ExclusiveInitEnds
<1>3. CASE Bootstrapping
  <2>1. CASE ColdStart
    BY <2>1, ExclusiveBootGoes DEF ColdStart, session, inits
  <2>2. CASE SignedIn
    <3>1. /\ pc["boot"] \in {"verify", "signin"} /\ auth' = TRUE /\ deferred' = FALSE
          /\ UNCHANGED <<initializationPromise, joined>>
          /\ \E s \in {"probe", "loading"} : pc' = [pc EXCEPT !["boot"] = s]
      BY <2>2 DEF SignedIn, RestoreStarts, RestoreEnds, inits
    <3> QED  BY <3>1, ExclusiveBootGoes
  <2>3. CASE NotSignedIn
    BY <2>3, ExclusiveBootGoes DEF NotSignedIn, session, inits
  <2>4. CASE Bootstrapped /\ pc["boot"] = "loading"
    <3>1. EnsureKeysInitialized("boot", "off", token) /\ auth' = auth /\ deferred' = FALSE
      BY <2>4 DEF Bootstrapped, session, Exclusive, Alone, TypeOK
    <3> QED  BY <2>4, <3>1, EnsureExclusive
  <2>5. CASE Bootstrapped /\ pc["boot"] # "loading"
    BY <2>5, ExclusiveBootGoes DEF Bootstrapped, session, inits
  <2>6. CASE RetryRestored
    BY <2>6, EnsureExclusive DEF RetryRestored
  <2> QED  BY <1>3, <2>1, <2>2, <2>3, <2>4, <2>5, <2>6, ExclusiveRestore DEF Bootstrapping
<1>4. CASE Recovering
  BY <1>4, ExclusiveRecovering
<1>5. CASE UserActs
  BY <1>5, ExclusiveLoginUser, ExclusiveRetry, ExclusiveRecover DEF UserActs
<1>6. CASE Environment
  <2>1. CASE Restart \/ Relaunch \/ Reinstall
    BY <2>1, ExclusiveLaunch DEF Restart, Relaunch, Reinstall
  <2>2. CASE Logout
    BY <2>2, ExclusiveSignedOut DEF Logout, inits
  <2>3. CASE PushArrives
    BY <2>3, ExclusiveKept DEF PushArrives, inits
  <2>4. CASE OtherDevice
    BY <2>4, ExclusiveKept DEF OtherDevice, session, inits
  <2> QED  BY <1>6, <2>1, <2>2, <2>3, <2>4 DEF Environment
<1>7. CASE UNCHANGED vars
  BY <1>7, ExclusiveKept DEF vars, session, inits
<1> QED  BY <1>1, <1>2, <1>3, <1>4, <1>5, <1>6, <1>7 DEF Next

-----------------------------------------------------------------------------
(* The private half a task works with is the one the device holds.          *)

\* An initialization past its key generation.
Keyed == {"upload", "maintain", "replenish", "done"}

Generating == \A i \in Inits : pc[i] = "saving" => identityKeyPublic = NoKey /\ reg[i] # NoKey
Restoring ==
    \A t \in Tasks : pc[t] \in {"probe", "provision"} =>
        /\ identityKeyPublic = NoKey /\ reg[t] # NoKey /\ keychain = reg[t]
        /\ loggedOut \/ cachedPrivateKey = reg[t]
Clearing == \A t \in Restorers : pc[t] = "clearing" => identityKeyPublic = NoKey
Cached == cachedPrivateKey # NoKey => keychain = cachedPrivateKey \/ pc["rec"] = "wipeDb"
HasPublic == \A i \in Inits : pc[i] \in Keyed => identityKeyPublic # NoKey

Paired == PairWhole /\ Generating /\ Restoring /\ Clearing /\ Cached /\ HasPublic

LEMMA PairedInit == Init => Paired
<1> SUFFICES ASSUME Init PROVE Paired
  OBVIOUS
<1>1. \A t \in Tasks : pc[t] \in {"cold", "off"}
  BY DEF Init
<1>2. identityKeyPublic = NoKey /\ cachedPrivateKey = keychain
  BY DEF Init
<1> QED  BY <1>1, <1>2, NamesDistinct
  DEF Paired, PairWhole, Generating, Restoring, Clearing, Cached, HasPublic, Keyed

\* The device's keys stay, and each task carries what it had or takes what is there.
LEMMA PairedGoes ==
    ASSUME Paired, UNCHANGED <<keychain, cachedPrivateKey, identityKeyPublic, torn, loggedOut>>,
           pc'["rec"] = "wipeDb" <=> pc["rec"] = "wipeDb",
           \A t \in Tasks : pc'[t] \in {"probe", "provision"} =>
              \/ pc[t] \in {"probe", "provision"} /\ reg'[t] = reg[t]
              \/ /\ identityKeyPublic = NoKey /\ reg'[t] # NoKey
                 /\ keychain = reg'[t] /\ cachedPrivateKey = reg'[t],
           \A i \in Inits : pc'[i] = "saving" =>
              \/ pc[i] = "saving" /\ reg'[i] = reg[i]
              \/ identityKeyPublic = NoKey /\ reg'[i] # NoKey,
           \A t \in Restorers : pc'[t] = "clearing" => pc[t] \in {"probe", "clearing"},
           \A i \in Inits : pc'[i] \in Keyed => pc[i] \in Keyed \/ identityKeyPublic # NoKey
    PROVE  Paired'
<1>1. PairWhole' /\ Cached'
  BY DEF Paired, PairWhole, HasPair, Cached
<1>2. Generating' /\ Restoring' /\ HasPublic'
  BY DEF Paired, Generating, Restoring, HasPublic
<1>3. Clearing'
  BY NamesDistinct DEF Paired, Clearing, Restoring
<1> QED  BY <1>1, <1>2, <1>3 DEF Paired

\* One task takes a step that carries nothing.
LEMMA PairedTaskGoes ==
    ASSUME TypeOK, Paired, NEW t \in Tasks, NEW s, pc' = [pc EXCEPT ![t] = s],
           reg' = reg \/ \E k : reg' = [reg EXCEPT ![t] = k],
           UNCHANGED <<keychain, cachedPrivateKey, identityKeyPublic, torn, loggedOut>>,
           s \notin {"probe", "provision", "saving"},
           t = "rec" => pc[t] # "wipeDb" /\ s # "wipeDb",
           t \in Restorers /\ s = "clearing" => pc[t] = "probe",
           t \in Inits /\ s \in Keyed => pc[t] \in Keyed \/ identityKeyPublic # NoKey
    PROVE  Paired'
<1>1. /\ pc'[t] = s
      /\ \A u \in Tasks : u # t => pc'[u] = pc[u] /\ reg'[u] = reg[u]
  BY DEF TypeOK
<1>2. "rec" \in Tasks /\ Restorers \subseteq Tasks /\ Inits \subseteq Tasks
  BY NamesDistinct
<1>3. pc'["rec"] = "wipeDb" <=> pc["rec"] = "wipeDb"
  BY <1>1, <1>2
<1>4. \A u \in Tasks : pc'[u] \in {"probe", "provision", "saving"} => pc[u] = pc'[u] /\ reg'[u] = reg[u]
  BY <1>1
<1>5. \A u \in Restorers : pc'[u] = "clearing" => pc[u] \in {"probe", "clearing"}
  BY <1>1, <1>2
<1>6. \A i \in Inits : pc'[i] \in Keyed => pc[i] \in Keyed \/ identityKeyPublic # NoKey
  BY <1>1, <1>2
<1>7. /\ \A u \in Tasks : pc'[u] \in {"probe", "provision"} => pc[u] \in {"probe", "provision"} /\ reg'[u] = reg[u]
      /\ \A i \in Inits : pc'[i] = "saving" => pc[i] = "saving" /\ reg'[i] = reg[i]
  BY <1>2, <1>4
<1> QED  BY <1>3, <1>5, <1>6, <1>7, PairedGoes

LEMMA FreshKey == \A k \in Fresh : k # NoKey
BY KeysAssumption, FreshType

\* What an initialization begins with.
LEMMA FirstStepPaired ==
    /\ FirstStep \in Keyed => identityKeyPublic # NoKey
    /\ FirstStep = "saving" => identityKeyPublic = NoKey
    /\ FirstStep \in {"saving", "failed", "upload", "maintain"}
BY DEF FirstStep, Keyed

LEMMA EnsurePaired ==
    ASSUME TypeOK, Paired, NEW c \in {"boot", "retry", "rec"}, NEW next \in {"off", "init"}, NEW tok,
           EnsureKeysInitialized(c, next, tok), pc["rec"] # "wipeDb",
           UNCHANGED <<keychain, cachedPrivateKey, identityKeyPublic, torn, loggedOut>>
    PROVE  Paired'
<1>1. c \in Tasks /\ c \notin Inits
  BY NamesDistinct
<1>2. CASE initializationPromise # None
  <2>1. pc' = [pc EXCEPT ![c] = next] /\ reg' = [reg EXCEPT ![c] = NoKey]
    BY <1>2 DEF EnsureKeysInitialized
  <2> QED  BY <1>1, <2>1, PairedTaskGoes
<1>3. CASE initializationPromise = None
  <2>1. PICK i \in Inits : \E k \in IF FirstStep = "saving" THEN Fresh ELSE {NoKey} :
          /\ pc' = [pc EXCEPT ![c] = next, ![i] = FirstStep]
          /\ reg' = [reg EXCEPT ![c] = NoKey, ![i] = k]
    BY <1>3 DEF EnsureKeysInitialized
  <2>2. PICK k \in IF FirstStep = "saving" THEN Fresh ELSE {NoKey} :
          /\ pc' = [pc EXCEPT ![c] = next, ![i] = FirstStep]
          /\ reg' = [reg EXCEPT ![c] = NoKey, ![i] = k]
    BY <2>1
  <2>3. /\ pc'[c] = next /\ pc'[i] = FirstStep /\ reg'[i] = k /\ i # c /\ i \in Tasks
        /\ \A u \in Tasks : u # c /\ u # i => pc'[u] = pc[u] /\ reg'[u] = reg[u]
    BY <1>1, <2>2, NamesDistinct DEF TypeOK
  <2>4. FirstStep = "saving" => k # NoKey
    BY <2>2, FreshKey
  <2>5. "rec" \in Tasks /\ "rec" # i /\ Restorers \subseteq Tasks /\ Inits \subseteq Tasks /\ i \notin Restorers
    BY NamesDistinct DEF Restorers
  <2>6. pc'["rec"] = "wipeDb" <=> pc["rec"] = "wipeDb"
    BY <2>3, <2>5
  <2>7. \A u \in Tasks : pc'[u] \in {"probe", "provision"} => pc[u] \in {"probe", "provision"} /\ reg'[u] = reg[u]
    BY <2>3, FirstStepPaired
  <2>8. \A j \in Inits : pc'[j] = "saving" =>
           (pc[j] = "saving" /\ reg'[j] = reg[j]) \/ (identityKeyPublic = NoKey /\ reg'[j] # NoKey)
    BY <1>1, <2>3, <2>4, <2>5, FirstStepPaired
  <2>9. \A u \in Restorers : pc'[u] = "clearing" => pc[u] \in {"probe", "clearing"}
    BY <2>3, <2>5
  <2>10. \A j \in Inits : pc'[j] \in Keyed => pc[j] \in Keyed \/ identityKeyPublic # NoKey
    BY <1>1, <2>3, <2>5, FirstStepPaired
  <2> QED  BY <2>6, <2>7, <2>8, <2>9, <2>10, PairedGoes
<1> QED  BY <1>2, <1>3

\* What the exclusions mean for the tasks that carry a key: one at a time.
LEMMA OneCarrier ==
    ASSUME TypeOK, Exclusive
    PROVE  /\ \A t, u \in Tasks :
                /\ pc[t] \in {"probe", "clearing", "provision", "saving"}
                /\ pc[u] \in {"probe", "clearing", "provision", "saving"}
                => t = u
           /\ \A t \in Tasks : pc[t] \in {"probe", "clearing", "provision", "saving"}
                => pc["rec"] \in {"off", "cancel", "init"} /\ t # "rec"
           /\ \A i \in Inits : pc[i] = "saving" => \A j \in Inits : j # i => pc[j] = "off"
<1>1. pc["rec"] \notin {"probe", "clearing", "provision", "saving"}
  BY DEF Exclusive, Steps, RecAlone
<1>2. \A i \in Inits : pc[i] \in {"saving", "provision"} =>
        /\ pc["boot"] \notin {"probe", "clearing", "provision", "saving"}
        /\ pc["retry"] \notin {"probe", "clearing", "provision", "saving"}
        /\ pc["rec"] \in {"off", "cancel", "init"}
        /\ \A j \in Inits : j # i => pc[j] = "off"
  BY DEF Exclusive, Settled, Settling, OneInitialization, Steps, Quiet, Late
<1>3. \A i \in Inits : pc[i] \notin {"probe", "clearing"}
  BY DEF Exclusive, Steps, Late
<1>4. \A t \in Restorers : pc[t] \in {"probe", "clearing", "provision", "saving"} =>
        /\ pc["rec"] = "off" /\ \A u \in Restorers : u # t => pc[u] \notin {"probe", "clearing", "provision", "saving"}
  BY DEF Exclusive, Alone, Restorers, Steps
<1>5. \A t \in Tasks : t \in Restorers \/ t = "rec" \/ t \in Inits
  BY DEF Tasks
<1> HIDE DEF Tasks
<1>6. ASSUME NEW t \in Tasks, NEW u \in Tasks,
             pc[t] \in {"probe", "clearing", "provision", "saving"},
             pc[u] \in {"probe", "clearing", "provision", "saving"}
      PROVE  t = u
  <2>1. CASE t \in Inits \/ u \in Inits
    BY <1>1, <1>2, <1>3, <1>5, <1>6, <2>1 DEF Restorers
  <2>2. CASE t \in Restorers /\ u \in Restorers
    BY <1>4, <1>6, <2>2
  <2> QED  BY <1>1, <1>5, <1>6, <2>1, <2>2
<1>7. ASSUME NEW t \in Tasks, pc[t] \in {"probe", "clearing", "provision", "saving"}
      PROVE  pc["rec"] \in {"off", "cancel", "init"} /\ t # "rec"
  BY <1>1, <1>2, <1>3, <1>4, <1>5, <1>7
<1> QED  BY <1>2, <1>6, <1>7

\* The one task that carries a key takes a step that changes the device's keys.
LEMMA PairedCarrier ==
    ASSUME TypeOK, Exclusive, Paired, NEW t \in Tasks,
           pc[t] \in {"probe", "clearing", "provision", "saving"},
           \A u \in Tasks : u # t => pc'[u] = pc[u] /\ reg'[u] = reg[u],
           PairWhole', Cached', UNCHANGED <<torn, loggedOut>>,
           pc'[t] \notin {"probe", "clearing", "saving"},
           pc'[t] = "provision" => /\ identityKeyPublic' = NoKey /\ reg'[t] # NoKey
                                  /\ keychain' = reg'[t] /\ cachedPrivateKey' = reg'[t],
           t \in Inits /\ pc'[t] \in Keyed => identityKeyPublic' # NoKey,
           identityKeyPublic # NoKey => identityKeyPublic' # NoKey
    PROVE  Paired'
<1>1. \A u \in Tasks : u # t => pc'[u] \notin {"probe", "clearing", "provision", "saving"}
  BY OneCarrier
<1>2. Generating' /\ Restoring' /\ Clearing'
  BY <1>1, NamesDistinct DEF Generating, Restoring, Clearing
<1>3. HasPublic'
  BY NamesDistinct DEF Paired, HasPublic
<1> QED  BY <1>2, <1>3 DEF Paired

LEMMA PairedInitialize ==
    ASSUME TypeOK, Exclusive, Paired, NEW i \in Inits, Initialize(i)
    PROVE  Paired'
<1>1. i \in Tasks /\ i # "rec" /\ i \notin Restorers /\ UNCHANGED <<torn, loggedOut>>
  BY NamesDistinct DEF Restorers, Initialize, history
<1>2. /\ "rec" \in Tasks
      /\ \A s : pc' = [pc EXCEPT ![i] = s] => pc'["rec"] = pc["rec"]
  BY <1>1, NamesDistinct DEF TypeOK
<1>3. CASE InitSaved(i) /\ InitGoesTo(i, "failed", NoKey, Idle) /\ UNCHANGED <<keychain, cachedPrivateKey>>
  <2>1. UNCHANGED <<keychain, cachedPrivateKey, identityKeyPublic>>
    BY <1>3 DEF InitSaved
  <2>2. pc' = [pc EXCEPT ![i] = "failed"] /\ reg' = [reg EXCEPT ![i] = NoKey] /\ "failed" \notin Keyed
    BY <1>3 DEF InitGoesTo, Keyed
  <2> QED  BY <1>1, <2>1, <2>2, PairedTaskGoes
<1>6. CASE /\ InitSaved(i) /\ InitGoesTo(i, "provision", reg[i], Idle)
           /\ keychain' = reg[i] /\ cachedPrivateKey' = reg[i]
  <2>1. /\ pc[i] = "saving" /\ pc' = [pc EXCEPT ![i] = "provision"]
        /\ reg' = [reg EXCEPT ![i] = reg[i]]
        /\ keychain' = reg[i] /\ cachedPrivateKey' = reg[i] /\ UNCHANGED identityKeyPublic
    BY <1>6 DEF InitSaved, InitGoesTo
  <2>2. identityKeyPublic = NoKey /\ reg[i] # NoKey
    BY <2>1 DEF Paired, Generating
  <2>3. PairWhole' /\ Cached'
    BY <2>1, <2>2 DEF PairWhole, Cached
  <2>4. /\ pc'[i] = "provision" /\ reg'[i] = reg[i]
        /\ \A u \in Tasks : u # i => pc'[u] = pc[u] /\ reg'[u] = reg[u]
    BY <1>1, <2>1 DEF TypeOK
  <2>5. pc'[i] \notin Keyed
    BY <2>4 DEF Keyed
  <2> QED  BY <1>1, <2>1, <2>2, <2>3, <2>4, <2>5, PairedCarrier
<1>4. CASE InitProvisioned(i)
  <2>1. /\ pc[i] = "provision" /\ UNCHANGED <<keychain, cachedPrivateKey>>
        /\ reg' = [reg EXCEPT ![i] = NoKey]
    BY <1>4 DEF InitProvisioned, InitGoesTo
  <2>2. PICK s \in {"maintain", "upload", "failed"} :
          /\ pc' = [pc EXCEPT ![i] = s]
          /\ identityKeyPublic' = IF s = "failed" THEN identityKeyPublic ELSE reg[i]
    BY <1>4 DEF InitProvisioned, InitGoesTo
  <2>3. /\ identityKeyPublic = NoKey /\ reg[i] # NoKey /\ keychain = reg[i]
        /\ loggedOut \/ cachedPrivateKey = reg[i]
    BY <1>1, <2>1 DEF Paired, Restoring
  <2>4. PairWhole' /\ Cached'
    BY <1>1, <1>2, <2>1, <2>2, <2>3 DEF Paired, PairWhole, HasPair, Cached
  <2>5. /\ pc'[i] = s
        /\ \A u \in Tasks : u # i => pc'[u] = pc[u] /\ reg'[u] = reg[u]
    BY <1>1, <2>1, <2>2 DEF TypeOK
  <2>6. pc'[i] \in Keyed => identityKeyPublic' # NoKey
    BY <2>2, <2>3, <2>5 DEF Keyed
  <2> QED  BY <1>1, <2>1, <2>2, <2>3, <2>4, <2>5, <2>6, PairedCarrier
<1>5. CASE InitUploaded(i) \/ InitRotates(i) \/ InitMaintained(i)
  <2>1. UNCHANGED <<keychain, cachedPrivateKey, identityKeyPublic>> /\ pc[i] \in Keyed
    BY <1>5 DEF InitUploaded, InitRotates, InitMaintained, device, Keyed
  <2>2. \E s \in {"maintain", "failed", "conflicted", "replenish", "done"} :
          pc' = [pc EXCEPT ![i] = s] /\ reg' = [reg EXCEPT ![i] = NoKey]
    BY <1>5 DEF InitUploaded, InitRotates, InitMaintained, InitGoesTo, OutcomeOf
  <2> QED  BY <1>1, <2>1, <2>2, PairedTaskGoes
<1>7. InitSaved(i) => \/ InitGoesTo(i, "failed", NoKey, Idle) /\ UNCHANGED <<keychain, cachedPrivateKey>>
                      \/ /\ InitGoesTo(i, "provision", reg[i], Idle)
                         /\ keychain' = reg[i] /\ cachedPrivateKey' = reg[i]
  BY DEF InitSaved
<1> QED  BY <1>3, <1>4, <1>5, <1>6, <1>7 DEF Initialize

LEMMA PairedInitEnds ==
    ASSUME TypeOK, Exclusive, Paired, NEW i \in Inits, InitEnds(i)
    PROVE  Paired'
<1>1. UNCHANGED <<keychain, cachedPrivateKey, identityKeyPublic, torn, loggedOut, reg>>
  BY DEF InitEnds, device, history
<1>2. \A t \in Tasks : pc'[t] = pc[t] \/ pc'[t] \in {"off", "cancelled", "done", "failed", "conflicted"}
  BY DEF InitEnds
<1>3. \A j \in Inits : pc'[j] = pc[j] \/ pc'[j] = "off"
  BY NamesDistinct DEF InitEnds
<1>4. pc["rec"] = "wipeDb" => pc'["rec"] = "wipeDb"
  <2>1. "rec" \in joined[i] => pc["rec"] \in {"cancel", "init"}
    BY DEF Exclusive, OneInitialization
  <2> QED  BY <2>1, NamesDistinct DEF InitEnds
<1>5. pc'["rec"] = "wipeDb" <=> pc["rec"] = "wipeDb"
  BY <1>2, <1>4, NamesDistinct
<1>6. /\ \A t \in Tasks : pc'[t] \in {"probe", "provision"} => pc[t] \in {"probe", "provision"}
      /\ \A t \in Restorers : pc'[t] = "clearing" => pc[t] = "clearing"
      /\ \A j \in Inits : pc'[j] = "saving" => pc[j] = "saving"
      /\ \A j \in Inits : pc'[j] \in Keyed => pc[j] \in Keyed
  BY <1>2, <1>3, NamesDistinct DEF Keyed
<1> QED  BY <1>1, <1>5, <1>6, PairedGoes

LEMMA PairedRestore ==
    ASSUME TypeOK, Exclusive, Paired, NEW t \in Restorers, Restore(t)
    PROVE  Paired'
<1>1. t \in Tasks /\ t # "rec" /\ t \notin Inits /\ UNCHANGED <<torn, loggedOut>>
  BY NamesDistinct DEF Restorers, Restore, history
<1>2. PICK s \in {"provision", "clearing", "loading", "restored", "deferred", "off"} : \E k :
        /\ pc' = [pc EXCEPT ![t] = s] /\ reg' = [reg EXCEPT ![t] = k]
        /\ s = "provision" => Matches(t) /\ k = call[t].key
        /\ s = "clearing" => k = reg[t]
  <2>1. CASE RestoreProbed(t) /\ pc' = [pc EXCEPT ![t] = "clearing"] /\ reg' = reg
    <3>1. reg' = [reg EXCEPT ![t] = reg[t]]
      BY <1>1, <2>1 DEF TypeOK
    <3> QED  BY <2>1, <3>1
  <2>2. CASE RestoreProbed(t) /\ ~(pc' = [pc EXCEPT ![t] = "clearing"] /\ reg' = reg)
    BY <2>2 DEF RestoreProbed, RestoreDeferred
  <2>3. CASE RestoreCleared(t) \/ RestoreProvisioned(t)
    BY <2>3 DEF RestoreCleared, RestoreProvisioned, RestoreEnds, RestoreDeferred
  <2> QED  BY <2>1, <2>2, <2>3 DEF Restore
<1>3. PICK k :
        /\ pc' = [pc EXCEPT ![t] = s] /\ reg' = [reg EXCEPT ![t] = k]
        /\ s = "provision" => Matches(t) /\ k = call[t].key
        /\ s = "clearing" => k = reg[t]
  BY <1>2
<1>4. /\ pc'[t] = s /\ reg'[t] = k
      /\ \A u \in Tasks : u # t => pc'[u] = pc[u] /\ reg'[u] = reg[u]
  BY <1>1, <1>3 DEF TypeOK
<1>5. pc'["rec"] = pc["rec"] /\ pc["rec"] # "wipeDb" /\ pc[t] \in {"probe", "clearing", "provision"}
  BY <1>1, <1>4, NamesDistinct, OneCarrier
     DEF Restore, RestoreProbed, RestoreCleared, RestoreProvisioned
<1>6. CASE RestoreProbed(t)
  <2>1. pc[t] = "probe" /\ UNCHANGED <<keychain, cachedPrivateKey, identityKeyPublic>>
    BY <1>6 DEF RestoreProbed, RestoreDeferred
  <2>2. \A u \in Tasks : pc'[u] \in {"probe", "provision"} =>
          pc[u] \in {"probe", "provision"} /\ reg'[u] = reg[u]
    BY <1>3, <1>4, <2>1 DEF Matches
  <2>3. \A u \in Restorers : pc'[u] = "clearing" => pc[u] \in {"probe", "clearing"}
    BY <1>4, <2>1, NamesDistinct
  <2>4. \A i \in Inits : pc'[i] = pc[i] /\ reg'[i] = reg[i]
    BY <1>1, <1>4, NamesDistinct
  <2> QED  BY <1>1, <1>5, <2>1, <2>2, <2>3, <2>4, PairedGoes
<1>7. CASE RestoreCleared(t)
  <2>1. /\ pc[t] = "clearing" /\ cachedPrivateKey' = NoKey /\ UNCHANGED identityKeyPublic
        /\ pc'[t] \in {"loading", "restored"}
    BY <1>1, <1>7 DEF RestoreCleared, RestoreEnds, TypeOK
  <2>2. identityKeyPublic = NoKey
    BY <2>1 DEF Paired, Clearing
  <2>3. PairWhole' /\ Cached'
    BY <2>1, <2>2 DEF PairWhole, Cached
  <2> QED  BY <1>1, <1>4, <2>1, <2>2, <2>3, PairedCarrier
<1>8. CASE RestoreProvisioned(t)
  <2>1. /\ pc[t] = "provision" /\ UNCHANGED <<keychain, cachedPrivateKey>>
        /\ identityKeyPublic' \in {identityKeyPublic, reg[t]}
        /\ pc'[t] \in {"loading", "restored", "deferred", "off"}
    BY <1>1, <1>8 DEF RestoreProvisioned, RestoreEnds, RestoreDeferred, TypeOK
  <2>2. /\ identityKeyPublic = NoKey /\ reg[t] # NoKey /\ keychain = reg[t]
        /\ loggedOut \/ cachedPrivateKey = reg[t]
    BY <1>1, <2>1 DEF Paired, Restoring
  <2>3. PairWhole' /\ Cached'
    BY <1>1, <1>5, <2>1, <2>2 DEF Paired, PairWhole, HasPair, Cached
  <2> QED  BY <1>1, <1>4, <2>1, <2>2, <2>3, PairedCarrier
<1> QED  BY <1>6, <1>7, <1>8 DEF Restore

\* A restore begins, or has nothing to do.
LEMMA PairedRestoreStarts ==
    ASSUME TypeOK, Paired, NEW t \in Restorers, NEW tok, RestoreStarts(t, tok),
           pc["rec"] # "wipeDb",
           UNCHANGED <<keychain, cachedPrivateKey, identityKeyPublic, torn, loggedOut>>
    PROVE  Paired'
<1>1. t \in Tasks /\ t # "rec" /\ t \notin Inits
  BY NamesDistinct DEF Restorers
<1>2. CASE identityKeyPublic # NoKey \/ cachedPrivateKey = NoKey
  <2>1. \E s \in {"loading", "restored"} :
          pc' = [pc EXCEPT ![t] = s] /\ reg' = [reg EXCEPT ![t] = NoKey]
    BY <1>2 DEF RestoreStarts, RestoreEnds
  <2> QED  BY <1>1, <2>1, PairedTaskGoes
<1>3. CASE ~(identityKeyPublic # NoKey \/ cachedPrivateKey = NoKey)
  <2>1. /\ pc' = [pc EXCEPT ![t] = "probe"] /\ reg' = [reg EXCEPT ![t] = cachedPrivateKey]
        /\ identityKeyPublic = NoKey /\ cachedPrivateKey # NoKey
    BY <1>3 DEF RestoreStarts
  <2>2. /\ pc'[t] = "probe" /\ reg'[t] = cachedPrivateKey /\ keychain = cachedPrivateKey
        /\ \A u \in Tasks : u # t => pc'[u] = pc[u] /\ reg'[u] = reg[u]
    BY <1>1, <2>1 DEF TypeOK, Paired, Cached
  <2>3. \A i \in Inits : pc'[i] = pc[i] /\ reg'[i] = reg[i]
    BY <1>1, <2>2, NamesDistinct
  <2>4. pc'["rec"] = pc["rec"]
    BY <1>1, <2>2, NamesDistinct
  <2>5. \A u \in Restorers : pc'[u] = "clearing" => pc[u] \in {"probe", "clearing"}
    BY <2>2, NamesDistinct
  <2>6. \A u \in Tasks : pc'[u] \in {"probe", "provision"} =>
              \/ pc[u] \in {"probe", "provision"} /\ reg'[u] = reg[u]
              \/ /\ identityKeyPublic = NoKey /\ reg'[u] # NoKey
                 /\ keychain = reg'[u] /\ cachedPrivateKey = reg'[u]
    BY <2>1, <2>2
  <2> QED  BY <2>3, <2>4, <2>5, <2>6, PairedGoes
<1> QED  BY <1>2, <1>3

LEMMA PairedBootstrapping ==
    ASSUME TypeOK, Exclusive, Paired, Bootstrapping
    PROVE  Paired'
<1>1. /\ pc["boot"] # "off" => pc["rec"] # "wipeDb"
      /\ pc["retry"] # "off" => pc["rec"] # "wipeDb"
  BY DEF Exclusive, Alone
<1>2. "boot" \in Restorers /\ "retry" \in Restorers /\ "boot" \in Tasks /\ "boot" \notin Inits
  BY NamesDistinct DEF Restorers
<1>3. CASE ColdStart \/ NotSignedIn \/ (Bootstrapped /\ pc["boot"] # "loading")
  <2>1. /\ UNCHANGED <<keychain, cachedPrivateKey, identityKeyPublic, torn, loggedOut, reg>>
        /\ \E s \in {"off", "verify"} : pc' = [pc EXCEPT !["boot"] = s]
    BY <1>3 DEF ColdStart, NotSignedIn, Bootstrapped, device, history
  <2> QED  BY <1>2, <2>1, PairedTaskGoes
<1>4. CASE SignedIn
  BY <1>1, <1>2, <1>4, PairedRestoreStarts DEF SignedIn, device, history
<1>5. CASE Bootstrapped /\ pc["boot"] = "loading"
  BY <1>1, <1>5, EnsurePaired DEF Bootstrapped, device, history
<1>6. CASE RetryRestored
  BY <1>1, <1>6, EnsurePaired DEF RetryRestored, device, history
<1> QED  BY <1>3, <1>4, <1>5, <1>6, PairedRestore DEF Bootstrapping

LEMMA PairedRecovering ==
    ASSUME TypeOK, Exclusive, Paired, Recovering
    PROVE  Paired'
<1>1. "rec" \in Tasks /\ "rec" \notin Restorers /\ "rec" \notin Inits
  BY NamesDistinct DEF Restorers
<1>2. CASE WipeKeychain \/ WipeDatabase
  <2>1. /\ pc["rec"] \in {"wipe", "wipeDb"} /\ reg' = reg
        /\ \E s \in {"wipeDb", "login", "off"} : pc' = [pc EXCEPT !["rec"] = s]
    BY <1>2 DEF WipeKeychain, WipeDatabase, RecGoesTo, RecFails
  <2>2. Quiet /\ pc["boot"] = "off" /\ pc["retry"] = "off"
    BY <2>1 DEF Exclusive, Settled, Alone, RecAlone
  <2>3. \A t \in Tasks : pc'[t] \in {"wipeDb", "login", "off"}
    BY <1>1, <2>1, <2>2 DEF TypeOK, Tasks, Restorers, Quiet
  <2>4. Generating' /\ Restoring' /\ Clearing' /\ HasPublic'
    BY <2>3, NamesDistinct DEF Generating, Restoring, Clearing, HasPublic, Keyed
  <2>5. PairWhole' /\ Cached'
    <3>1. CASE WipeKeychain
      <4>1. pc'["rec"] = "wipeDb"
        BY <1>1, <3>1 DEF WipeKeychain, RecGoesTo, TypeOK
      <4> QED  BY <4>1 DEF PairWhole, Cached
    <3>2. CASE WipeDatabase
      <4>1. cachedPrivateKey' = NoKey /\ (identityKeyPublic' = NoKey \/ torn' = TRUE)
        BY <3>2 DEF WipeDatabase, RowsDeleted
      <4> QED  BY <4>1 DEF PairWhole, Cached
    <3> QED  BY <1>2, <3>1, <3>2
  <2> QED  BY <2>4, <2>5 DEF Paired
<1>3. CASE Cancelled \/ Checked \/ Reset \/ LoginFails \/ Recovered
  <2>1. /\ UNCHANGED <<keychain, cachedPrivateKey, identityKeyPublic, torn, loggedOut, reg>>
        /\ pc["rec"] # "wipeDb"
    BY <1>3 DEF Cancelled, CancelDone, Checked, Reset, LoginFails, Recovered, WipeOrLogin,
                RecFails, RecGoesTo, device, history
  <2>2. \E s \in RecAlone \cup {"off"} : s # "wipeDb" /\ pc' = [pc EXCEPT !["rec"] = s]
    BY <1>3 DEF Cancelled, CancelDone, Checked, Reset, LoginFails, Recovered, WipeOrLogin,
                RecFails, RecGoesTo, RecAlone
  <2> QED  BY <1>1, <2>1, <2>2, PairedTaskGoes DEF RecAlone
<1>4. CASE LoggedIn \/ Rechecked \/ ResetAgain
  <2>1. /\ UNCHANGED <<keychain, cachedPrivateKey, identityKeyPublic, torn, loggedOut>>
        /\ pc["rec"] # "wipeDb"
    BY <1>4 DEF LoggedIn, Rechecked, ResetAgain, device, history
  <2>2. CASE \E tok : EnsureKeysInitialized("rec", "init", tok)
    BY <2>1, <2>2, EnsurePaired
  <2>3. CASE \E s \in {"recheck", "resetAgain", "loginAgain"} :
               pc' = [pc EXCEPT !["rec"] = s] /\ reg' = reg
    BY <1>1, <2>1, <2>3, PairedTaskGoes
  <2> QED  BY <1>4, <2>2, <2>3 DEF LoggedIn, Rechecked, ResetAgain, RecGoesTo
<1> QED  BY <1>2, <1>3, <1>4 DEF Recovering

LEMMA PairedUserActs ==
    ASSUME TypeOK, Exclusive, Paired, UserActs
    PROVE  Paired'
<1>1. "rec" \in Tasks /\ "rec" \notin Restorers /\ "rec" \notin Inits /\ "boot" \in Tasks
  BY NamesDistinct DEF Restorers
<1>2. CASE LoginUser
  <2>1. /\ UNCHANGED <<keychain, cachedPrivateKey, identityKeyPublic, torn, loggedOut, reg>>
        /\ pc' = [pc EXCEPT !["boot"] = "signin"]
    BY <1>2 DEF LoginUser, device, history
  <2> QED  BY <1>1, <2>1, PairedTaskGoes, NamesDistinct DEF Restorers
<1>3. CASE RetryIdentityRestore
  BY <1>3, PairedRestoreStarts DEF RetryIdentityRestore, device, history, Restorers
<1>4. CASE Recover
  <2>1. /\ UNCHANGED <<keychain, cachedPrivateKey, identityKeyPublic, torn, loggedOut, reg>>
        /\ pc["rec"] = "off"
    BY <1>4 DEF Recover, CancelDone, WipeOrLogin, RecGoesTo, device, history
  <2>2. \E s \in {"cancel", "check", "wipe", "login"} : pc' = [pc EXCEPT !["rec"] = s]
    BY <1>4 DEF Recover, CancelDone, WipeOrLogin, RecGoesTo
  <2> QED  BY <1>1, <2>1, <2>2, PairedTaskGoes
<1> QED  BY <1>2, <1>3, <1>4 DEF UserActs

\* A launch, in which the pair that was whole is read again.
LEMMA PairedLaunch ==
    ASSUME Launch, UNCHANGED keychain,
           identityKeyPublic' # NoKey /\ ~torn' => keychain = identityKeyPublic'
    PROVE  Paired'
<1>1. \A t \in Tasks : pc'[t] \in {"cold", "off"}
  BY DEF Launch
<1>2. cachedPrivateKey' = keychain'
  BY DEF Launch
<1> QED  BY <1>1, <1>2, NamesDistinct
  DEF Paired, PairWhole, HasPair, Generating, Restoring, Clearing, Cached, HasPublic, Keyed

LEMMA PairedEnvironment ==
    ASSUME TypeOK, Exclusive, Paired, Environment
    PROVE  Paired'
<1>1. CASE Restart \/ Relaunch
  <2>1. /\ Launch /\ UNCHANGED <<keychain, identityKeyPublic>>
        /\ ~torn' => ~torn /\ pc["rec"] # "wipeDb"
    <3>1. Launch /\ UNCHANGED <<keychain, identityKeyPublic>>
      BY <1>1 DEF Restart, Relaunch
    <3>2. CASE Restart
      BY <3>1, <3>2 DEF Restart
    <3>3. CASE Relaunch
      <4>1. torn' = torn /\ pc["rec"] = "off"
        BY <3>3, NamesDistinct DEF Relaunch
      <4> QED  BY <3>1, <4>1
    <3> QED  BY <1>1, <3>2, <3>3
  <2> QED  BY <2>1, PairedLaunch DEF Paired, PairWhole
<1>2. CASE Reinstall
  BY <1>2, PairedLaunch DEF Reinstall
<1>3. CASE Logout
  <2>1. /\ UNCHANGED <<keychain, identityKeyPublic, pc, reg, torn>>
        /\ cachedPrivateKey' = NoKey /\ loggedOut' = TRUE
    BY <1>3 DEF Logout
  <2> QED  BY <2>1
    DEF Paired, PairWhole, HasPair, Generating, Restoring, Clearing, Cached, HasPublic
<1>4. CASE PushArrives \/ OtherDevice
  <2>1. UNCHANGED <<keychain, cachedPrivateKey, identityKeyPublic, torn, loggedOut, pc, reg>>
    BY <1>4 DEF PushArrives, OtherDevice, device, history
  <2> QED  BY <2>1, PairedGoes
<1> QED  BY <1>1, <1>2, <1>3, <1>4 DEF Environment

LEMMA PairedStep == TypeOK /\ Exclusive /\ Paired /\ [Next]_vars => Paired'
<1> SUFFICES ASSUME TypeOK, Exclusive, Paired, [Next]_vars PROVE Paired'
  OBVIOUS
<1>1. CASE Calls \/ UNCHANGED vars
  <2>1. UNCHANGED <<keychain, cachedPrivateKey, identityKeyPublic, torn, loggedOut, pc, reg>>
    BY <1>1 DEF Calls, Serve, Lose, Unauthorized, vars, device, history
  <2> QED  BY <2>1, PairedGoes
<1>2. CASE Initializing
  BY <1>2, PairedInitialize, PairedInitEnds DEF Initializing
<1> QED  BY <1>1, <1>2, PairedBootstrapping, PairedRecovering, PairedUserActs, PairedEnvironment
         DEF Next

\* The device never holds one half of a key pair without the other, unless some recovery or
\* login of the behaviour overlaps a restore, a retry or a key generation: a public row always has its
\* private half in the Keychain, and in the cache but for a launch that has logged out
\* (generateInitialKeys saves the private half first, fullCryptoWipe removes both, a restore
\* provisions the private half it probed for).
THEOREM BrokenPairHasCause == Spec => []PairWhole \/ <><<Overlaps>>_vars
<1> DEFINE Inv == TypeOK /\ Exclusive /\ Paired
<1>1. Init => Inv
  BY InitType, ExclusiveInit, PairedInit
<1>2. Inv /\ [Next]_vars /\ [~Overlaps]_vars => Inv'
  BY TypeStep, ExclusiveStep, PairedStep, StutterAlone
<1>3. Inv => PairWhole
  BY DEF Paired
<1> HIDE DEF Inv
<1> QED  BY <1>1, <1>2, <1>3, PTL DEF Spec
-----------------------------------------------------------------------------
(* A request is the one its task awaits.                                    *)

Purpose(s) ==
    CASE s = "verify" -> "verify"
      [] s \in {"signin", "login", "loginAgain"} -> "login"
      [] s \in {"probe", "check", "recheck"} -> "bundle"
      [] s \in {"reset", "resetAgain"} -> "reset"
      [] s \in {"upload", "replenish"} -> "upload"
      [] OTHER -> "none"

\* The call c fits a task at step s of a device whose public key is k.
Fits(c, s, k) ==
    /\ c.live => c.at = "out"
    /\ c.at # "none" =>
         /\ Purpose(s) # "none"
         /\ c.at = "out" => c.what = Purpose(s) /\ (s \in {"upload", "replenish"} => c.key = k)

Requests == \A t \in Tasks : Fits(call[t], pc[t], identityKeyPublic)

LEMMA IdleFits == \A s, k : Fits(Idle, s, k)
BY DEF Fits, Idle

LEMMA RequestFits ==
    ASSUME NEW s, NEW k, NEW key, NEW tok, Purpose(s) # "none",
           s \in {"upload", "replenish"} => key = k
    PROVE  Fits(Request(Purpose(s), key, tok), s, k)
BY DEF Fits, Request, Answer

LEMMA PurposeValues ==
    /\ Purpose("verify") = "verify"
    /\ Purpose("signin") = "login" /\ Purpose("login") = "login" /\ Purpose("loginAgain") = "login"
    /\ Purpose("probe") = "bundle" /\ Purpose("check") = "bundle" /\ Purpose("recheck") = "bundle"
    /\ Purpose("reset") = "reset" /\ Purpose("resetAgain") = "reset"
    /\ Purpose("upload") = "upload" /\ Purpose("replenish") = "upload"
BY DEF Purpose

LEMMA RequestsInit == Init => Requests
BY IdleFits DEF Init, Requests

\* Only an initialization uploads, and only when there is a public key.
LEMMA Uploaders ==
    ASSUME TypeOK, Exclusive, Paired, Requests, NEW t \in Tasks, Out(t, "upload")
    PROVE  t \in Inits /\ pc[t] \in {"upload", "replenish"} /\ identityKeyPublic # NoKey
             /\ call[t].key = identityKeyPublic
<1>1. Purpose(pc[t]) = "upload" /\ call[t].what = Purpose(pc[t])
  BY DEF Requests, Fits, Out
<1>2. pc[t] \in {"upload", "replenish"}
  BY <1>1 DEF Purpose
<1>3. t \in Inits
  BY <1>2 DEF Exclusive, Steps, RecAlone, Tasks, Restorers
<1> QED  BY <1>2, <1>3 DEF Paired, HasPublic, Keyed, Requests, Fits, Out

\* One task goes on with another call.
LEMMA RequestsTaskGoes ==
    ASSUME TypeOK, Requests, NEW t \in Tasks, NEW s, NEW c,
           pc' = [pc EXCEPT ![t] = s], call' = [call EXCEPT ![t] = c],
           Fits(c, s, identityKeyPublic'),
           UNCHANGED identityKeyPublic \/ \A u \in Tasks : ~Out(u, "upload")
    PROVE  Requests'
<1>1. /\ pc'[t] = s /\ call'[t] = c
      /\ \A u \in Tasks : u # t => pc'[u] = pc[u] /\ call'[u] = call[u]
  BY DEF TypeOK
<1>2. \A u \in Tasks : Fits(call[u], pc[u], identityKeyPublic')
  <2>1. CASE UNCHANGED identityKeyPublic
    BY <2>1 DEF Requests
  <2>2. CASE \A u \in Tasks : ~Out(u, "upload")
    BY <2>2 DEF Requests, Fits, Out, Purpose
  <2> QED  BY <2>1, <2>2
<1> QED  BY <1>1, <1>2 DEF Requests

\* Calls are answered, or lose their token.
LEMMA RequestsAnswered ==
    ASSUME TypeOK, Requests, UNCHANGED <<pc, identityKeyPublic>>,
           \A t \in Tasks : \/ call'[t] = call[t]
                            \/ call[t].at # "none" /\ call'[t].at = "back" /\ ~call'[t].live
                            \/ /\ call'[t].at = call[t].at /\ ~call'[t].live
                               /\ call'[t].what = call[t].what /\ call'[t].key = call[t].key
    PROVE  Requests'
BY DEF Requests, Fits

LEMMA RevokedKeeps ==
    ASSUME NEW calls \in [Tasks -> CallStates], NEW t \in Tasks
    PROVE  /\ Revoked(calls)[t].at = calls[t].at /\ Revoked(calls)[t].what = calls[t].what
           /\ Revoked(calls)[t].key = calls[t].key /\ ~Revoked(calls)[t].live
BY DEF Revoked, CallStates

LEMMA ReplyKeeps ==
    ASSUME TypeOK, NEW t \in Tasks, NEW what, NEW key, Reply(t, what, key)
    PROVE  /\ call'[t] = Answer(what, key) /\ call'[t].at = "back" /\ ~call'[t].live
           /\ \A u \in Tasks : u # t => call'[u] = call[u]
BY DEF TypeOK, Reply, Answer

LEMMA RequestsCalls ==
    ASSUME TypeOK, Requests, Calls
    PROVE  Requests'
<1>1. PICK t \in Tasks : Serve(t) \/ Lose(t) \/ Unauthorized(t)
  BY DEF Calls
<1>2. UNCHANGED <<pc, identityKeyPublic>>
  BY <1>1 DEF Serve, Lose, Unauthorized, device
<1>3. CASE \E what, key : Reply(t, what, key)
  <2>1. call[t].at # "none"
    BY <1>1 DEF Serve, ServeBundle, ServeReset, ServeUpload, ServeLogin, ServeRevoked, Lose,
                Unauthorized, Out, Answered
  <2> QED  BY <1>2, <1>3, <2>1, ReplyKeeps, RequestsAnswered
<1>4. CASE ServeReset(t)
  <2>1. call' = [Revoked(call) EXCEPT ![t] = Answer("ok", NoKey)] /\ call[t].at # "none"
    BY <1>4 DEF ServeReset, Out
  <2>2. Revoked(call) \in [Tasks -> CallStates]
    BY RevokedType DEF TypeOK
  <2>3. /\ call'[t].at = "back" /\ ~call'[t].live /\ \A u \in Tasks : u # t => call'[u] = Revoked(call)[u]
    BY <2>1, <2>2 DEF Answer
  <2> QED  BY <1>2, <2>1, <2>3, RevokedKeeps, RequestsAnswered DEF TypeOK
<1> QED  BY <1>1, <1>3, <1>4
         DEF Serve, ServeBundle, ServeUpload, ServeLogin, ServeRevoked, Lose, Unauthorized

LEMMA CallOfFits ==
    ASSUME NEW s \in {"saving", "failed", "upload", "maintain"}, NEW k, NEW tok
    PROVE  Fits(CallOf(s, k, tok), s, k)
<1>1. CASE s = "upload"
  <2>1. Fits(Request(Purpose(s), k, tok), s, k)
    BY <1>1, RequestFits, PurposeValues
  <2> QED  BY <1>1, <2>1, PurposeValues DEF CallOf
<1>2. CASE s # "upload"
  BY <1>2, IdleFits DEF CallOf
<1> QED  BY <1>1, <1>2

LEMMA EnsureRequests ==
    ASSUME TypeOK, Requests, NEW c \in {"boot", "retry", "rec"}, NEW next, NEW tok,
           EnsureKeysInitialized(c, next, tok), UNCHANGED identityKeyPublic
    PROVE  Requests'
<1>1. c \in Tasks /\ c \notin Inits
  BY NamesDistinct
<1>2. CASE initializationPromise # None
  <2>1. pc' = [pc EXCEPT ![c] = next] /\ call' = [call EXCEPT ![c] = Idle]
    BY <1>2 DEF EnsureKeysInitialized
  <2>2. Fits(Idle, next, identityKeyPublic')
    BY IdleFits
  <2> QED  BY <1>1, <2>1, <2>2, RequestsTaskGoes
<1>3. CASE initializationPromise = None
  <2>1. PICK i \in Inits :
          /\ pc' = [pc EXCEPT ![c] = next, ![i] = FirstStep]
          /\ call' = [call EXCEPT ![c] = Idle, ![i] = CallOf(FirstStep, identityKeyPublic, tok)]
    BY <1>3 DEF EnsureKeysInitialized
  <2>2. /\ pc'[c] = next /\ pc'[i] = FirstStep /\ i # c /\ i \in Tasks
        /\ call'[c] = Idle /\ call'[i] = CallOf(FirstStep, identityKeyPublic, tok)
        /\ \A u \in Tasks : u # c /\ u # i => pc'[u] = pc[u] /\ call'[u] = call[u]
    BY <1>1, <2>1, NamesDistinct DEF TypeOK
  <2>3. Fits(CallOf(FirstStep, identityKeyPublic, tok), FirstStep, identityKeyPublic)
    BY CallOfFits, FirstStepPaired
  <2>4. Fits(Idle, next, identityKeyPublic)
    BY IdleFits
  <2> QED  BY <2>2, <2>3, <2>4 DEF Requests
<1> QED  BY <1>2, <1>3

LEMMA RequestsInitialize ==
    ASSUME TypeOK, Exclusive, Paired, Requests, NEW i \in Inits, Initialize(i)
    PROVE  Requests'
<1>1. i \in Tasks
  BY NamesDistinct
<1>2. CASE InitSaved(i)
  <2>1. PICK s \in {"provision", "failed"} :
          /\ pc' = [pc EXCEPT ![i] = s] /\ call' = [call EXCEPT ![i] = Idle]
          /\ UNCHANGED identityKeyPublic
    BY <1>2 DEF InitSaved, InitGoesTo
  <2>2. Fits(Idle, s, identityKeyPublic')
    BY IdleFits
  <2> QED  BY <1>1, <2>1, <2>2, RequestsTaskGoes
<1>3. CASE InitProvisioned(i)
  <2>1. \A u \in Tasks : ~Out(u, "upload")
    BY <1>1, <1>3, Uploaders DEF InitProvisioned, Paired, Restoring
  <2>2. CASE UNCHANGED identityKeyPublic /\ InitGoesTo(i, "failed", NoKey, Idle)
    <3>1. Fits(Idle, "failed", identityKeyPublic')
      BY IdleFits
    <3> QED  BY <1>1, <2>2, <3>1, RequestsTaskGoes DEF InitGoesTo
  <2>3. CASE \E s \in {"maintain", "upload"} :
               InitGoesTo(i, s, NoKey, CallOf(s, identityKeyPublic', token))
    <3>1. PICK s \in {"maintain", "upload"} :
               InitGoesTo(i, s, NoKey, CallOf(s, identityKeyPublic', token))
      BY <2>3
    <3>2. Fits(CallOf(s, identityKeyPublic', token), s, identityKeyPublic')
      BY CallOfFits
    <3> QED  BY <1>1, <2>1, <3>1, <3>2, RequestsTaskGoes DEF InitGoesTo
  <2> QED  BY <1>3, <2>2, <2>3 DEF InitProvisioned
<1>4. CASE InitUploaded(i) \/ InitMaintained(i)
  <2>1. PICK s : pc' = [pc EXCEPT ![i] = s] /\ call' = [call EXCEPT ![i] = Idle]
    BY <1>4 DEF InitUploaded, InitMaintained, InitGoesTo
  <2>2. Fits(Idle, s, identityKeyPublic') /\ UNCHANGED identityKeyPublic
    BY <1>4, IdleFits DEF InitUploaded, InitMaintained, device
  <2> QED  BY <1>1, <2>1, <2>2, RequestsTaskGoes
<1>5. CASE InitRotates(i)
  <2> DEFINE c == Request("upload", identityKeyPublic, token)
  <2>1. pc' = [pc EXCEPT ![i] = "replenish"] /\ call' = [call EXCEPT ![i] = c]
        /\ UNCHANGED identityKeyPublic
    BY <1>5 DEF InitRotates, InitGoesTo, device
  <2>2. Fits(Request(Purpose("replenish"), identityKeyPublic, token), "replenish", identityKeyPublic)
    BY RequestFits, PurposeValues
  <2>3. Fits(c, "replenish", identityKeyPublic')
    BY <2>1, <2>2, PurposeValues
  <2> HIDE DEF c
  <2> QED  BY <1>1, <2>1, <2>3, RequestsTaskGoes
<1> QED  BY <1>2, <1>3, <1>4, <1>5 DEF Initialize

LEMMA RequestsInitEnds ==
    ASSUME TypeOK, Exclusive, Requests, NEW i \in Inits, InitEnds(i)
    PROVE  Requests'
<1>1. call' = call /\ identityKeyPublic' = identityKeyPublic
  BY DEF InitEnds, device
<1>2. /\ pc[i] \in {"done", "failed", "conflicted"}
      /\ "rec" \in joined[i] => pc["rec"] \in {"cancel", "init"}
      /\ "retry" \in joined[i] => pc["retry"] = "init"
  BY DEF InitEnds, Exclusive, OneInitialization
<1>3. \A t \in Tasks : pc'[t] = pc[t] \/ Purpose(pc[t]) = "none"
  <2>1. \A t \in Tasks : pc'[t] = pc[t] \/ pc[t] \in {"done", "failed", "conflicted", "cancel", "init"}
    BY <1>2 DEF InitEnds
  <2> QED  BY <2>1 DEF Purpose
<1> QED  BY <1>1, <1>3 DEF Requests, Fits

LEMMA RequestsRestoreStarts ==
    ASSUME TypeOK, Requests, NEW t \in Restorers, NEW tok, RestoreStarts(t, tok),
           UNCHANGED identityKeyPublic
    PROVE  Requests'
<1>1. t \in Tasks
  BY NamesDistinct
<1>2. CASE RestoreEnds(t)
  <2>1. PICK s : pc' = [pc EXCEPT ![t] = s] /\ call' = [call EXCEPT ![t] = Idle]
    BY <1>2 DEF RestoreEnds
  <2>2. Fits(Idle, s, identityKeyPublic')
    BY IdleFits
  <2> QED  BY <1>1, <2>1, <2>2, RequestsTaskGoes
<1>3. CASE ~RestoreEnds(t)
  <2> DEFINE c == Request("bundle", NoKey, tok)
  <2>1. pc' = [pc EXCEPT ![t] = "probe"] /\ call' = [call EXCEPT ![t] = c]
    BY <1>3 DEF RestoreStarts
  <2>2. Fits(Request(Purpose("probe"), NoKey, tok), "probe", identityKeyPublic')
    BY RequestFits, PurposeValues
  <2>3. Fits(c, "probe", identityKeyPublic')
    BY <2>2, PurposeValues
  <2> HIDE DEF c
  <2> QED  BY <1>1, <2>1, <2>3, RequestsTaskGoes
<1> QED  BY <1>2, <1>3

LEMMA RequestsRestore ==
    ASSUME TypeOK, Exclusive, Paired, Requests, NEW t \in Restorers, Restore(t)
    PROVE  Requests'
<1>1. t \in Tasks
  BY NamesDistinct
<1>2. PICK s : pc' = [pc EXCEPT ![t] = s] /\ call' = [call EXCEPT ![t] = Idle]
  BY DEF Restore, RestoreProbed, RestoreCleared, RestoreProvisioned, RestoreEnds, RestoreDeferred
<1>3. UNCHANGED identityKeyPublic \/ \A u \in Tasks : ~Out(u, "upload")
  <2>1. CASE RestoreProvisioned(t)
    BY <1>1, <2>1, Uploaders DEF RestoreProvisioned, Paired, Restoring
  <2>2. CASE RestoreProbed(t) \/ RestoreCleared(t)
    BY <2>2 DEF RestoreProbed, RestoreCleared, RestoreDeferred
  <2> QED  BY <2>1, <2>2 DEF Restore
<1>4. Fits(Idle, s, identityKeyPublic')
  BY IdleFits
<1> QED  BY <1>1, <1>2, <1>3, <1>4, RequestsTaskGoes

LEMMA RequestsBootstrapping ==
    ASSUME TypeOK, Exclusive, Paired, Requests, Bootstrapping
    PROVE  Requests'
<1>1. "boot" \in Tasks /\ "boot" \in Restorers /\ "retry" \in Restorers
  BY NamesDistinct DEF Restorers
<1>2. CASE ColdStart
  <2>1. CASE pc' = [pc EXCEPT !["boot"] = "off"] /\ UNCHANGED call
    <3>1. \A u \in Tasks : u # "boot" => pc'[u] = pc[u]
      BY <2>1 DEF TypeOK
    <3>2. call["boot"].at = "none"
      BY <1>1, <1>2 DEF ColdStart, Requests, Fits, Purpose
    <3>3. UNCHANGED identityKeyPublic
      BY <1>2 DEF ColdStart, device
    <3> QED  BY <2>1, <3>1, <3>2, <3>3 DEF Requests, Fits
  <2>2. CASE pc' # [pc EXCEPT !["boot"] = "off"] \/ call' # call
    <3> DEFINE c == Request("verify", NoKey, token)
    <3>1. /\ pc' = [pc EXCEPT !["boot"] = "verify"] /\ call' = [call EXCEPT !["boot"] = c]
          /\ UNCHANGED identityKeyPublic
      BY <1>2, <2>2 DEF ColdStart, device
    <3>2. Fits(Request(Purpose("verify"), NoKey, token), "verify", identityKeyPublic')
      BY RequestFits, PurposeValues
    <3>3. Fits(c, "verify", identityKeyPublic')
      BY <3>2, PurposeValues
    <3> HIDE DEF c
    <3> QED  BY <1>1, <3>1, <3>3, RequestsTaskGoes
  <2> QED  BY <2>1, <2>2
<1>3. CASE NotSignedIn
  <2>1. /\ pc' = [pc EXCEPT !["boot"] = "off"] /\ call' = [call EXCEPT !["boot"] = Idle]
        /\ UNCHANGED identityKeyPublic
    BY <1>3 DEF NotSignedIn, device
  <2>2. Fits(Idle, "off", identityKeyPublic')
    BY IdleFits
  <2> QED  BY <1>1, <2>1, <2>2, RequestsTaskGoes
<1>4. CASE SignedIn
  BY <1>1, <1>4, RequestsRestoreStarts DEF SignedIn, device
<1>5. CASE Bootstrapped
  <2>1. CASE pc["boot"] = "loading" /\ EnsureKeysInitialized("boot", "off", token)
    BY <1>5, <2>1, EnsureRequests DEF Bootstrapped, device
  <2>2. CASE pc["boot"] = "deferred" /\ pc' = [pc EXCEPT !["boot"] = "off"] /\ UNCHANGED call
    <3>1. \A u \in Tasks : u # "boot" => pc'[u] = pc[u]
      BY <2>2 DEF TypeOK
    <3>2. call["boot"].at = "none"
      BY <1>1, <2>2 DEF Requests, Fits, Purpose
    <3>3. UNCHANGED identityKeyPublic
      BY <1>5 DEF Bootstrapped, device
    <3> QED  BY <2>2, <3>1, <3>2, <3>3 DEF Requests, Fits
  <2> QED  BY <1>5, <2>1, <2>2 DEF Bootstrapped
<1>6. CASE RetryRestored
  BY <1>6, EnsureRequests DEF RetryRestored, device
<1> QED  BY <1>2, <1>3, <1>4, <1>5, <1>6, RequestsRestore DEF Bootstrapping

\* What the recovery sends.
LEMMA RecRequestFits ==
    ASSUME NEW tok, NEW k
    PROVE  /\ Fits(Request("bundle", NoKey, tok), "check", k)
           /\ Fits(Request("bundle", NoKey, tok), "recheck", k)
           /\ Fits(Request("reset", NoKey, tok), "reset", k)
           /\ Fits(Request("reset", NoKey, tok), "resetAgain", k)
           /\ Fits(Request("login", NoKey, tok), "login", k)
           /\ Fits(Request("login", NoKey, tok), "loginAgain", k)
BY DEF Fits, Request, Answer, Purpose

LEMMA RequestsRecGoes ==
    ASSUME TypeOK, Requests, NEW s, NEW c, RecGoesTo(s, c), Fits(c, s, identityKeyPublic'),
           UNCHANGED identityKeyPublic \/ \A u \in Tasks : ~Out(u, "upload")
    PROVE  Requests'
BY RequestsTaskGoes, NamesDistinct DEF RecGoesTo

LEMMA RequestsRecovering ==
    ASSUME TypeOK, Exclusive, Paired, Requests, Recovering
    PROVE  Requests'
<1>1. CASE WipeKeychain \/ WipeDatabase
  <2>1. \A u \in Tasks : ~Out(u, "upload")
    <3>1. pc["rec"] \in RecAlone
      BY <1>1 DEF WipeKeychain, WipeDatabase, RecAlone
    <3>2. Quiet
      BY <3>1 DEF Exclusive, Settled
    <3> QED  BY <3>2, Uploaders DEF Quiet
  <2>2. \E s, c : RecGoesTo(s, c) /\ Fits(c, s, identityKeyPublic')
    BY <1>1, IdleFits, RecRequestFits DEF WipeKeychain, WipeDatabase, RecFails
  <2> QED  BY <2>1, <2>2, RequestsRecGoes
<1>2. CASE Cancelled \/ Checked \/ Reset
  <2>1. \E s, c : RecGoesTo(s, c) /\ Fits(c, s, identityKeyPublic')
    BY <1>2, IdleFits, RecRequestFits DEF Cancelled, CancelDone, Checked, Reset, WipeOrLogin, RecFails
  <2> QED  BY <1>2, <2>1, RequestsRecGoes DEF Cancelled, Checked, Reset, device
<1>3. CASE LoginFails \/ Recovered
  <2>1. \E s, c : RecGoesTo(s, c) /\ Fits(c, s, identityKeyPublic')
    BY <1>3, IdleFits, RecRequestFits DEF LoginFails, Recovered, RecFails
  <2> QED  BY <1>3, <2>1, RequestsRecGoes DEF LoginFails, Recovered, device
<1>4. CASE LoggedIn \/ Rechecked \/ ResetAgain
  <2>1. UNCHANGED identityKeyPublic
    BY <1>4 DEF LoggedIn, Rechecked, ResetAgain, device
  <2>2. CASE \E tok : EnsureKeysInitialized("rec", "init", tok)
    BY <2>1, <2>2, EnsureRequests
  <2>3. CASE \E s, c : RecGoesTo(s, c) /\ Fits(c, s, identityKeyPublic')
    BY <2>1, <2>3, RequestsRecGoes
  <2> QED  BY <1>4, <2>2, <2>3, RecRequestFits DEF LoggedIn, Rechecked, ResetAgain
<1> QED  BY <1>1, <1>2, <1>3, <1>4 DEF Recovering

LEMMA RequestsUserActs ==
    ASSUME TypeOK, Exclusive, Requests, UserActs
    PROVE  Requests'
<1>1. UNCHANGED identityKeyPublic
  BY DEF UserActs, LoginUser, RetryIdentityRestore, Recover, device
<1>2. CASE LoginUser
  <2> DEFINE c == Request("login", NoKey, token)
  <2>1. pc' = [pc EXCEPT !["boot"] = "signin"] /\ call' = [call EXCEPT !["boot"] = c]
    BY <1>2 DEF LoginUser
  <2>2. Fits(Request(Purpose("signin"), NoKey, token), "signin", identityKeyPublic')
    BY RequestFits, PurposeValues
  <2>3. Fits(c, "signin", identityKeyPublic')
    BY <2>2, PurposeValues
  <2> HIDE DEF c
  <2> QED  BY <1>1, <2>1, <2>3, RequestsTaskGoes, NamesDistinct
<1>3. CASE RetryIdentityRestore
  BY <1>1, <1>3, RequestsRestoreStarts DEF RetryIdentityRestore, Restorers
<1>4. CASE Recover
  <2>1. CASE initializationPromise = None
    <3>1. \E s, c : RecGoesTo(s, c) /\ Fits(c, s, identityKeyPublic')
      BY <1>4, <2>1, IdleFits, RecRequestFits DEF Recover, CancelDone, WipeOrLogin
    <3> QED  BY <1>1, <3>1, RequestsRecGoes
  <2>2. CASE initializationPromise # None
    <3>1. pc' = [pc EXCEPT !["rec"] = "cancel"] /\ UNCHANGED call /\ pc["rec"] = "off"
      BY <1>4, <2>2 DEF Recover
    <3>2. \A u \in Tasks : u # "rec" => pc'[u] = pc[u]
      BY <3>1 DEF TypeOK
    <3>3. call["rec"].at = "none"
      BY <3>1, NamesDistinct DEF Requests, Fits, Purpose
    <3> QED  BY <1>1, <3>1, <3>2, <3>3 DEF Requests, Fits
  <2> QED  BY <2>1, <2>2
<1> QED  BY <1>2, <1>3, <1>4 DEF UserActs

LEMMA RequestsStep == TypeOK /\ Exclusive /\ Paired /\ Requests /\ [Next]_vars => Requests'
<1> SUFFICES ASSUME TypeOK, Exclusive, Paired, Requests, [Next]_vars PROVE Requests'
  OBVIOUS
<1>1. CASE Initializing
  BY <1>1, RequestsInitialize, RequestsInitEnds DEF Initializing
<1>2. CASE Environment
  <2>1. CASE Restart \/ Relaunch \/ Reinstall
    BY <2>1, IdleFits DEF Restart, Relaunch, Reinstall, Launch, Requests
  <2>2. CASE Logout \/ PushArrives
    BY <2>2 DEF Logout, PushArrives, Requests, device
  <2>3. CASE OtherDevice
    <3>1. UNCHANGED <<pc, identityKeyPublic>> /\ (call' = call \/ call' = Revoked(call))
      BY <2>3 DEF OtherDevice, device
    <3> QED  BY <3>1, RevokedKeeps, RequestsAnswered DEF TypeOK
  <2> QED  BY <1>2, <2>1, <2>2, <2>3 DEF Environment
<1>3. CASE UNCHANGED vars
  BY <1>3 DEF vars, device, Requests
<1> QED  BY <1>1, <1>2, <1>3, RequestsCalls, RequestsBootstrapping, RequestsRecovering,
            RequestsUserActs DEF Next
-----------------------------------------------------------------------------
(* What a recovery has reached.                                             *)

Excused == torn \/ loggedOut
Emptied == identityKeyPublic = NoKey \/ Excused
ServerHasIt == recovery.cut \/ serverKey = identityKeyPublic

\* The upload flag goes with the public row.
Flagged == identityKeyPublic = NoKey => ~bundleUploaded

\* A recovery past the wipe, or that needs none, finds no public row.
RecEmptied ==
    /\ pc["rec"] \in {"check", "reset"} /\ recovery.wiped => Emptied
    /\ pc["rec"] \in {"login", "loginAgain", "recheck", "resetAgain"} => Emptied

\* An initialization that a recovery awaits has uploaded the key it goes on with.
Uploaded(i) == pc[i] \in {"maintain", "replenish", "done"} \/ (pc[i] = "upload" /\ Answered(i, "ok"))
Landed ==
    /\ pc["rec"] = "init" /\ ~Excused => \A i \in Inits : Uploaded(i) => ServerHasIt
    /\ pc["rec"] = "done" /\ ~Excused => identityKeyPublic # NoKey /\ ServerHasIt

Reached == Flagged /\ RecEmptied /\ Landed

LEMMA ReachedInit == Init => Reached
BY NamesDistinct DEF Init, Reached, Flagged, RecEmptied, Landed

\* The recovery is over, or has not come to a step that Reached is about.
LEMMA ReachedBefore ==
    ASSUME Flagged', pc'["rec"] \notin {"check", "reset", "login", "loginAgain", "recheck", "resetAgain",
                                        "init", "done"}
    PROVE  Reached'
BY DEF Reached, RecEmptied, Landed

\* Nothing that Reached is about changes.
LEMMA ReachedKept ==
    ASSUME Reached, UNCHANGED <<identityKeyPublic, bundleUploaded, torn, loggedOut, pc, serverKey>>,
           recovery' = [recovery EXCEPT !.cut = TRUE] \/ recovery' = recovery,
           recovery \in Recoveries,
           \A i \in Inits : pc[i] = "upload" /\ Answered(i, "ok")' => Answered(i, "ok")
    PROVE  Reached'
<1>1. recovery'.wiped = recovery.wiped /\ (recovery.cut => recovery'.cut)
  BY DEF Recoveries
<1>2. Excused' = Excused /\ Emptied' = Emptied /\ (ServerHasIt => ServerHasIt')
  BY <1>1 DEF Excused, Emptied, ServerHasIt
<1>3. \A i \in Inits : Uploaded(i)' => Uploaded(i)
  BY DEF Uploaded
<1> QED  BY <1>1, <1>2, <1>3 DEF Reached, Flagged, RecEmptied, Landed

\* Tasks other than the recovery take steps only beside a recovery that waits.
LEMMA BesideRecovery ==
    ASSUME TypeOK, Exclusive
    PROVE  /\ Initializing => pc["rec"] \in {"off", "cancel", "init"}
           /\ Bootstrapping => pc["rec"] = "off" /\ pc'["rec"] = "off"
<1>1. \A i \in Inits : pc[i] # "off" => pc["rec"] \in {"off", "cancel", "init"}
  BY DEF Exclusive, Steps, Settled, Quiet
<1>2. ASSUME Initializing PROVE pc["rec"] \in {"off", "cancel", "init"}
  BY <1>1, <1>2 DEF Initializing, Initialize, InitSaved, InitProvisioned, InitUploaded, InitRotates,
                    InitMaintained, InitEnds
<1>3. ASSUME Bootstrapping PROVE pc["rec"] = "off" /\ pc'["rec"] = "off"
  <2>1. pc["boot"] # "off" \/ pc["retry"] # "off"
    BY <1>3 DEF Bootstrapping, ColdStart, SignedIn, NotSignedIn, Bootstrapped, RetryRestored,
                Restore, RestoreProbed, RestoreCleared, RestoreProvisioned, Restorers
  <2>2. pc["rec"] = "off"
    BY <2>1 DEF Exclusive, Alone
  <2>3. pc'["rec"] = pc["rec"]
    <3>1. CASE \E t \in Restorers : \E s : pc' = [pc EXCEPT ![t] = s]
      BY <3>1, NamesDistinct DEF Restorers, TypeOK
    <3>2. CASE \E c \in Restorers : \E next, tok : EnsureKeysInitialized(c, next, tok)
      <4>1. PICK c, next : /\ c \in Restorers
                          /\ \/ pc' = [pc EXCEPT ![c] = next]
                             \/ \E i \in Inits : \E s : pc' = [pc EXCEPT ![c] = next, ![i] = s]
        BY <3>2 DEF EnsureKeysInitialized
      <4> QED  BY <4>1, NamesDistinct DEF Restorers, TypeOK
    <3> QED  BY <1>3, <3>1, <3>2
             DEF Bootstrapping, ColdStart, SignedIn, NotSignedIn, Bootstrapped, RetryRestored,
                 Restore, RestoreProbed, RestoreCleared, RestoreProvisioned, RestoreStarts,
                 RestoreEnds, RestoreDeferred, Restorers
  <2> QED  BY <2>2, <2>3
<1> QED  BY <1>2, <1>3

LEMMA ReachedCalls ==
    ASSUME TypeOK, Exclusive, Paired, Requests, Reached, Calls
    PROVE  Reached'
<1>1. PICK t \in Tasks : Serve(t) \/ Lose(t) \/ Unauthorized(t)
  BY DEF Calls
<1>2. UNCHANGED <<identityKeyPublic, bundleUploaded, torn, loggedOut, pc, recovery>>
  BY <1>1 DEF Serve, Lose, Unauthorized, device, history
<1>3. recovery \in Recoveries
  BY DEF TypeOK, Recoveries
<1>4. CASE ServeReset(t)
  <2>1. pc[t] \in {"reset", "resetAgain"}
    BY <1>4 DEF ServeReset, Out, Requests, Fits, Purpose
  <2>2. t = "rec"
    BY <2>1 DEF Exclusive, Steps, Tasks, Restorers, Late
  <2>3. Excused' = Excused /\ Emptied' = Emptied
    BY <1>2 DEF Excused, Emptied
  <2> QED  BY <1>2, <2>1, <2>2, <2>3 DEF Reached, Flagged, RecEmptied, Landed
<1>5. ASSUME UNCHANGED serverKey, NEW what, NEW key, Reply(t, what, key),
             t \in Inits /\ pc[t] = "upload" => what # "ok"
      PROVE  Reached'
  <2>1. \A i \in Inits : pc[i] = "upload" /\ Answered(i, "ok")' => Answered(i, "ok")
    <3>1. call'[t].what = what /\ \A u \in Tasks : u # t => call'[u] = call[u]
      <4>1. call'[t] = Answer(what, key) /\ \A u \in Tasks : u # t => call'[u] = call[u]
        BY <1>5 DEF Reply, TypeOK
      <4> QED  BY <4>1 DEF Answer
    <3> QED  BY <1>5, <3>1, NamesDistinct DEF Answered
  <2>2. recovery' = recovery
    BY <1>2
  <2> QED  BY <1>2, <1>3, <1>5, <2>1, <2>2, ReachedKept
<1>6. CASE ServeUpload(t)
  <2>1. call[t].key = identityKeyPublic
    BY <1>6, Uploaders DEF ServeUpload
  <2>2. CASE serverKey' = identityKeyPublic
    <3>1. ServerHasIt' /\ Excused' = Excused /\ Emptied' = Emptied
      BY <1>2, <2>2 DEF ServerHasIt, Excused, Emptied
    <3> QED  BY <1>2, <3>1 DEF Reached, Flagged, RecEmptied, Landed
  <2>3. CASE Reply(t, "conflict", NoKey) /\ UNCHANGED serverKey
    BY <1>5, <2>3
  <2> QED  BY <1>6, <2>1, <2>2, <2>3 DEF ServeUpload
<1>7. CASE ServeBundle(t) \/ ServeLogin(t)
  <2>1. pc[t] # "upload" /\ UNCHANGED serverKey /\ \E what, key : Reply(t, what, key)
    BY <1>7 DEF ServeBundle, ServeLogin, Out, Requests, Fits, Purpose
  <2> QED  BY <1>5, <2>1
<1>8. CASE ServeRevoked(t) \/ Lose(t) \/ Unauthorized(t)
  <2>1. UNCHANGED serverKey /\ \E what \in {"unauth", "lost", "refused", "denied"} : \E key : Reply(t, what, key)
    BY <1>8 DEF ServeRevoked, Lose, Unauthorized
  <2> QED  BY <1>5, <2>1
<1> QED  BY <1>1, <1>4, <1>6, <1>7, <1>8 DEF Serve

\* An initialization takes a step, the others being off.
LEMMA ReachedInitialize ==
    ASSUME TypeOK, Exclusive, Paired, Requests, Reached, NEW i \in Inits, Initialize(i)
    PROVE  Reached'
<1>1. /\ i \in Tasks /\ i # "rec" /\ UNCHANGED <<torn, loggedOut, recovery, serverKey>>
      /\ pc["rec"] \in {"off", "cancel", "init"} /\ pc[i] # "off"
  <2>1. pc[i] # "off"
    BY DEF Initialize, InitSaved, InitProvisioned, InitUploaded, InitRotates, InitMaintained
  <2> QED  BY <2>1, BesideRecovery, NamesDistinct DEF Initialize, history, Initializing
<1>2. PICK s, c : pc' = [pc EXCEPT ![i] = s] /\ call' = [call EXCEPT ![i] = c]
  BY DEF Initialize, InitSaved, InitProvisioned, InitUploaded, InitRotates, InitMaintained, InitGoesTo
<1>3. /\ pc'[i] = s /\ call'[i] = c /\ pc'["rec"] = pc["rec"]
      /\ \A j \in Inits : j # i => pc'[j] = "off"
  <2>1. \A j \in Inits : j # i => pc[j] = "off"
    BY <1>1 DEF Exclusive, OneInitialization
  <2> QED  BY <1>1, <1>2, <2>1, NamesDistinct DEF TypeOK
<1>4. Flagged'
  <2>1. CASE InitProvisioned(i)
    BY <1>1, <2>1 DEF InitProvisioned, Reached, Flagged, Paired, Restoring
  <2>2. CASE InitUploaded(i)
    BY <2>2 DEF InitUploaded, Flagged, Paired, HasPublic, Keyed
  <2>3. CASE InitSaved(i) \/ InitRotates(i) \/ InitMaintained(i)
    BY <2>3 DEF InitSaved, InitRotates, InitMaintained, device, Reached, Flagged
  <2> QED  BY <2>1, <2>2, <2>3 DEF Initialize
<1>5. ~Excused' /\ pc["rec"] = "init" /\ Uploaded(i)' => ServerHasIt'
  <2>1. CASE InitSaved(i)
    BY <1>3, <2>1 DEF InitSaved, InitGoesTo, Uploaded, TypeOK
  <2>2. CASE InitProvisioned(i)
    <3>1. ~bundleUploaded
      BY <1>1, <2>2 DEF InitProvisioned, Paired, Restoring, Reached, Flagged
    <3>2. /\ s \in {"upload", "failed"}
          /\ s = "upload" => \E tok : c = Request("upload", reg[i], tok)
      BY <1>1, <1>3, <2>2, <3>1 DEF InitProvisioned, InitGoesTo, CallOf, TypeOK
    <3>3. ~(c.at = "back" /\ c.what = "ok") \/ s = "failed"
      BY <3>2 DEF Request, Answer
    <3> QED  BY <1>3, <3>2, <3>3 DEF Uploaded, Answered
  <2>3. CASE InitUploaded(i) \/ InitRotates(i) \/ InitMaintained(i)
    <3>1. UNCHANGED identityKeyPublic
      BY <2>3 DEF InitUploaded, InitRotates, InitMaintained, device
    <3>2. Uploaded(i)' => Uploaded(i)
      BY <1>1, <1>3, <2>3
      DEF InitUploaded, InitRotates, InitMaintained, InitGoesTo, Uploaded, OutcomeOf, TypeOK
    <3> QED  BY <1>1, <3>1, <3>2 DEF Reached, Landed, Excused, ServerHasIt
  <2> QED  BY <2>1, <2>2, <2>3 DEF Initialize
<1>6. \A j \in Inits : j # i => ~Uploaded(j)'
  BY <1>3 DEF Uploaded
<1> QED  BY <1>1, <1>3, <1>4, <1>5, <1>6 DEF Reached, RecEmptied, Landed

LEMMA ReachedInitEnds ==
    ASSUME TypeOK, Exclusive, Paired, Reached, NEW i \in Inits, InitEnds(i)
    PROVE  Reached'
<1>1. /\ UNCHANGED <<identityKeyPublic, bundleUploaded, torn, loggedOut, recovery, serverKey, call>>
      /\ pc["rec"] \in {"off", "cancel", "init"} /\ pc[i] \in {"done", "failed", "conflicted"}
  BY BesideRecovery DEF InitEnds, device, history, Initializing
<1>2. /\ pc'["rec"] \in {pc["rec"], "cancelled", pc[i]}
      /\ pc'["rec"] = "done" => pc["rec"] = "init" /\ pc[i] = "done"
  <2>1. "rec" \in joined[i] => pc["rec"] \in {"cancel", "init"}
    BY DEF Exclusive, OneInitialization
  <2>2. pc'["rec"] = IF "rec" \notin joined[i] THEN pc["rec"]
                     ELSE IF pc["rec"] = "cancel" THEN "cancelled" ELSE pc[i]
    BY NamesDistinct DEF InitEnds
  <2> QED  BY <1>1, <2>1, <2>2
<1>3. \A j \in Inits : pc'[j] = pc[j] \/ pc'[j] = "off"
  BY NamesDistinct DEF InitEnds
<1>4. \A j \in Inits : Uploaded(j)' => Uploaded(j)
  BY <1>1, <1>3 DEF Uploaded, Answered
<1>5. ServerHasIt' = ServerHasIt /\ Excused' = Excused
  BY <1>1 DEF ServerHasIt, Excused
<1>6. pc[i] = "done" => Uploaded(i) /\ identityKeyPublic # NoKey
  BY DEF Uploaded, Paired, HasPublic, Keyed
<1>7. Landed'
  <2>1. ASSUME pc'["rec"] = "init", ~Excused PROVE \A j \in Inits : Uploaded(j)' => ServerHasIt
    BY <1>1, <1>2, <1>4, <2>1 DEF Reached, Landed
  <2>2. ASSUME pc'["rec"] = "done", ~Excused PROVE identityKeyPublic # NoKey /\ ServerHasIt
    BY <1>2, <1>6, <2>2 DEF Reached, Landed
  <2> QED  BY <1>1, <1>5, <2>1, <2>2 DEF Landed
<1> QED  BY <1>1, <1>2, <1>7 DEF Reached, Flagged, RecEmptied

LEMMA ReachedBootstrapping ==
    ASSUME TypeOK, Exclusive, Paired, Reached, Bootstrapping
    PROVE  Reached'
<1>1. pc'["rec"] = "off"
  BY BesideRecovery
<1>2. Flagged'
  <2>1. CASE UNCHANGED <<identityKeyPublic, bundleUploaded>>
    BY <2>1 DEF Reached, Flagged
  <2>2. CASE \E t \in Restorers : RestoreProvisioned(t) /\ identityKeyPublic' = reg[t]
    BY <2>2, NamesDistinct DEF RestoreProvisioned, Paired, Restoring, Flagged
  <2> QED  BY <2>1, <2>2
           DEF Bootstrapping, ColdStart, SignedIn, NotSignedIn, Bootstrapped, RetryRestored, Restore,
               RestoreProbed, RestoreCleared, RestoreProvisioned, RestoreDeferred, device
<1> QED  BY <1>1, <1>2, ReachedBefore

\* What a device that counts as wiped still holds.
LEMMA WipedEmptied ==
    ASSUME Paired, LocallyWiped, pc["rec"] # "wipeDb"
    PROVE  Emptied
BY DEF Paired, PairWhole, HasPair, LocallyWiped, Emptied, Excused

LEMMA ReachedCancelDone ==
    ASSUME TypeOK, Exclusive, Paired, Reached, NEW r \in Recoveries, CancelDone(r),
           pc["rec"] # "wipeDb", UNCHANGED <<identityKeyPublic, bundleUploaded, torn, loggedOut>>
    PROVE  Reached'
<1>1. recovery' = [r EXCEPT !.wiped = LocallyWiped] /\ recovery'.wiped = LocallyWiped
  BY DEF CancelDone, Recoveries
<1>2. PICK s \in {"check", "login", "wipe"} :
        pc' = [pc EXCEPT !["rec"] = s] /\ (s = "login" => LocallyWiped)
  BY DEF CancelDone, WipeOrLogin, RecGoesTo
<1>3. pc'["rec"] = s
  BY <1>2, NamesDistinct DEF TypeOK
<1>4. LocallyWiped => Emptied'
  BY WipedEmptied DEF Emptied, Excused
<1>5. RecEmptied' /\ Landed' /\ Flagged'
  BY <1>1, <1>2, <1>3, <1>4 DEF RecEmptied, Landed, Reached, Flagged
<1> QED  BY <1>5 DEF Reached

\* The recovery starts an initialization: it has emptied the device, so a key is generated.
LEMMA ReachedEnsure ==
    ASSUME TypeOK, Exclusive, Reached, NEW tok, EnsureKeysInitialized("rec", "init", tok),
           pc["rec"] \in {"login", "loginAgain", "recheck", "resetAgain"},
           UNCHANGED <<identityKeyPublic, bundleUploaded, torn, loggedOut>>
    PROVE  Reached'
<1>1. Quiet
  BY DEF Exclusive, Settled, RecAlone
<1>2. initializationPromise = None
  BY <1>1 DEF Exclusive, OneInitialization, Quiet, TypeOK
<1>3. PICK i \in Inits : pc' = [pc EXCEPT !["rec"] = "init", ![i] = FirstStep]
  BY <1>2 DEF EnsureKeysInitialized
<1>4. /\ pc'["rec"] = "init" /\ pc'[i] = FirstStep
      /\ \A j \in Inits : j # i => pc'[j] = "off"
  BY <1>1, <1>3, NamesDistinct DEF TypeOK, Quiet
<1>5. Excused \/ FirstStep \in {"saving", "failed"}
  BY DEF Reached, RecEmptied, Emptied, FirstStep
<1>6. Excused' \/ \A j \in Inits : ~Uploaded(j)'
  BY <1>4, <1>5 DEF Uploaded, Excused
<1> QED  BY <1>4, <1>6 DEF Reached, Flagged, RecEmptied, Landed

LEMMA ReachedRecovering ==
    ASSUME TypeOK, Exclusive, Paired, Reached, Recovering
    PROVE  Reached'
<1>1. "rec" \in Tasks
  BY NamesDistinct
<1>2. CASE Cancelled
  BY <1>2, ReachedCancelDone DEF Cancelled, device, history, TypeOK, Recoveries
<1>3. CASE Checked \/ Reset
  <2>1. UNCHANGED <<identityKeyPublic, bundleUploaded, torn, loggedOut>>
    BY <1>3 DEF Checked, Reset, device, history
  <2>2. PICK s \in {"reset", "login", "wipe", "off"} :
          /\ pc' = [pc EXCEPT !["rec"] = s] /\ (s = "login" => recovery.wiped)
          /\ s = "reset" => recovery' = recovery
    BY <1>3 DEF Checked, Reset, WipeOrLogin, RecFails, RecGoesTo
  <2>3. pc'["rec"] = s
    BY <1>1, <2>2 DEF TypeOK
  <2>4. recovery.wiped => Emptied
    BY <1>3 DEF Checked, Reset, Reached, RecEmptied
  <2>5. Emptied' = Emptied
    BY <2>1 DEF Emptied, Excused
  <2> QED  BY <2>1, <2>2, <2>3, <2>4, <2>5 DEF Reached, Flagged, RecEmptied, Landed
<1>4. CASE WipeKeychain
  <2>1. pc'["rec"] = "wipeDb" /\ UNCHANGED <<identityKeyPublic, bundleUploaded>>
    BY <1>1, <1>4 DEF WipeKeychain, RecGoesTo, TypeOK
  <2> QED  BY <2>1, ReachedBefore DEF Reached, Flagged
<1>5. CASE WipeDatabase
  <2>1. CASE RowsDeleted /\ RecGoesTo("login", Request("login", NoKey, token))
    <3>1. pc'["rec"] = "login" /\ identityKeyPublic' = NoKey /\ bundleUploaded' = FALSE
      BY <1>1, <2>1 DEF RowsDeleted, RecGoesTo, TypeOK
    <3> QED  BY <3>1 DEF Reached, Flagged, RecEmptied, Landed, Emptied
  <2>2. CASE RecFails /\ UNCHANGED <<identityKeyPublic, bundleUploaded>>
    <3>1. pc'["rec"] = "off"
      BY <1>1, <2>2 DEF RecFails, RecGoesTo, TypeOK
    <3> QED  BY <2>2, <3>1, ReachedBefore DEF Reached, Flagged
  <2> QED  BY <1>5, <2>1, <2>2 DEF WipeDatabase
<1>6. CASE LoginFails
  <2>1. /\ UNCHANGED <<identityKeyPublic, bundleUploaded, torn, loggedOut>>
        /\ pc["rec"] \in {"login", "loginAgain"} /\ pc'["rec"] \in {pc["rec"], "off"}
    BY <1>1, <1>6 DEF LoginFails, RecFails, RecGoesTo, device, history, TypeOK
  <2>2. Emptied'
    BY <2>1 DEF Reached, RecEmptied, Emptied, Excused
  <2> QED  BY <2>1, <2>2 DEF Reached, Flagged, RecEmptied, Landed
<1>7. CASE Recovered
  <2>1. pc'["rec"] = "off" /\ UNCHANGED <<identityKeyPublic, bundleUploaded>>
    BY <1>1, <1>7 DEF Recovered, RecGoesTo, device, TypeOK
  <2> QED  BY <2>1, ReachedBefore DEF Reached, Flagged
<1>8. CASE LoggedIn \/ Rechecked \/ ResetAgain
  <2>1. /\ UNCHANGED <<identityKeyPublic, bundleUploaded, torn, loggedOut>>
        /\ pc["rec"] \in {"login", "loginAgain", "recheck", "resetAgain"}
    BY <1>8 DEF LoggedIn, Rechecked, ResetAgain, device, history
  <2>2. CASE \E tok : EnsureKeysInitialized("rec", "init", tok)
    BY <2>1, <2>2, ReachedEnsure
  <2>3. CASE \E s \in {"recheck", "resetAgain", "loginAgain"} : \E c : RecGoesTo(s, c)
    <3>1. pc'["rec"] \in {"recheck", "resetAgain", "loginAgain"}
      BY <1>1, <2>3 DEF RecGoesTo, TypeOK
    <3>2. Emptied'
      BY <2>1 DEF Reached, RecEmptied, Emptied, Excused
    <3> QED  BY <2>1, <3>1, <3>2 DEF Reached, Flagged, RecEmptied, Landed
  <2> QED  BY <1>8, <2>2, <2>3 DEF LoggedIn, Rechecked, ResetAgain
<1> QED  BY <1>2, <1>3, <1>4, <1>5, <1>6, <1>7, <1>8 DEF Recovering

LEMMA ReachedUserActs ==
    ASSUME TypeOK, Exclusive, Paired, Reached, UserActs
    PROVE  Reached'
<1>1. UNCHANGED <<identityKeyPublic, bundleUploaded, torn, loggedOut>>
  BY DEF UserActs, LoginUser, RetryIdentityRestore, Recover, device, history
<1>2. Flagged'
  BY <1>1 DEF Reached, Flagged
<1>3. CASE LoginUser \/ RetryIdentityRestore
  <2>1. pc["rec"] = "off"
    BY <1>3 DEF LoginUser, RetryIdentityRestore, Exclusive, Alone
  <2>2. \E t \in Restorers : \E s : pc' = [pc EXCEPT ![t] = s]
    BY <1>3 DEF LoginUser, RetryIdentityRestore, RestoreStarts, RestoreEnds, Restorers
  <2>3. pc'["rec"] = "off"
    BY <2>1, <2>2, NamesDistinct DEF TypeOK, Restorers
  <2> QED  BY <1>2, <2>3, ReachedBefore
<1>4. CASE Recover
  <2> DEFINE r == [NoRecovery EXCEPT !.skip = (conflict = "push")]
  <2>1. r \in Recoveries /\ pc["rec"] = "off"
    BY <1>4 DEF Recover, NoRecovery, Recoveries
  <2>2. CASE initializationPromise = None
    <3>1. CancelDone(r)
      BY <1>4, <2>2 DEF Recover
    <3> HIDE DEF r
    <3> QED  BY <1>1, <2>1, <3>1, ReachedCancelDone
  <2>3. CASE initializationPromise # None
    <3>1. pc'["rec"] = "cancel"
      BY <1>4, <2>3, NamesDistinct DEF Recover, TypeOK
    <3> QED  BY <1>2, <3>1, ReachedBefore
  <2> QED  BY <2>2, <2>3
<1> QED  BY <1>3, <1>4 DEF UserActs

LEMMA ReachedEnvironment ==
    ASSUME TypeOK, Exclusive, Reached, Environment
    PROVE  Reached'
<1>1. CASE Restart \/ Relaunch \/ Reinstall
  <2>1. pc'["rec"] = "off"
    BY <1>1, NamesDistinct DEF Restart, Relaunch, Reinstall, Launch
  <2>2. Flagged'
    BY <1>1 DEF Restart, Relaunch, Reinstall, Reached, Flagged
  <2> QED  BY <2>1, <2>2, ReachedBefore
<1>2. CASE Logout
  BY <1>2, ReachedBefore DEF Logout, Reached, Flagged
<1>3. CASE PushArrives
  <2>1. /\ UNCHANGED <<identityKeyPublic, bundleUploaded, torn, loggedOut, pc, serverKey, call, recovery>>
        /\ recovery \in Recoveries
    BY <1>3 DEF PushArrives, device, history, TypeOK, Recoveries
  <2> QED  BY <2>1, ReachedKept DEF Answered
<1>4. CASE OtherDevice
  <2>1. /\ UNCHANGED <<identityKeyPublic, bundleUploaded, torn, loggedOut, pc>>
        /\ recovery' = [recovery EXCEPT !.cut = TRUE] /\ recovery \in Recoveries
    BY <1>4 DEF OtherDevice, device, history, TypeOK, Recoveries
  <2>2. ServerHasIt' /\ Excused' = Excused /\ Emptied' = Emptied /\ recovery'.wiped = recovery.wiped
    BY <2>1 DEF ServerHasIt, Excused, Emptied, Recoveries
  <2> QED  BY <2>1, <2>2 DEF Reached, Flagged, RecEmptied, Landed
<1> QED  BY <1>1, <1>2, <1>3, <1>4 DEF Environment

LEMMA ReachedStep == TypeOK /\ Exclusive /\ Paired /\ Requests /\ Reached /\ [Next]_vars => Reached'
<1> SUFFICES ASSUME TypeOK, Exclusive, Paired, Requests, Reached, [Next]_vars PROVE Reached'
  OBVIOUS
<1>1. CASE UNCHANGED vars
  <2>1. /\ UNCHANGED <<identityKeyPublic, bundleUploaded, torn, loggedOut, pc, serverKey, call, recovery>>
        /\ recovery \in Recoveries
    BY <1>1 DEF vars, device, history, TypeOK, Recoveries
  <2> QED  BY <2>1, ReachedKept DEF Answered
<1> QED  BY <1>1, ReachedCalls, ReachedInitialize, ReachedInitEnds, ReachedBootstrapping,
            ReachedRecovering, ReachedUserActs, ReachedEnvironment DEF Next, Initializing

\* What a state satisfies as long as no restore has been overlapped.
DeviceInv == TypeOK /\ Exclusive /\ Paired /\ Requests /\ Reached

LEMMA DeviceInvLasts == Spec /\ [][~Overlaps]_vars => []DeviceInv
<1>1. Init => DeviceInv
  BY InitType, ExclusiveInit, PairedInit, RequestsInit, ReachedInit DEF DeviceInv
<1>2. DeviceInv /\ [Next]_vars /\ [~Overlaps]_vars => DeviceInv'
  BY TypeStep, ExclusiveStep, PairedStep, RequestsStep, ReachedStep, StutterAlone DEF DeviceInv
<1> QED  BY <1>1, <1>2, PTL DEF Spec

\* Only a recovery whose initialization succeeded reports success.
LEMMA SuccessStep ==
    ASSUME DeviceInv, [Next]_vars, Succeeds, ~torn, ~loggedOut
    PROVE  HasPair /\ (recovery.cut \/ serverKey = identityKeyPublic)
<1>1. Recovering /\ Recovered /\ pc["rec"] = "done"
  <2>1. recovery' # recovery /\ recovery'.result = "success" /\ recovery \in Recoveries
    BY DEF Succeeds, DeviceInv, TypeOK, Recoveries
  <2>2. ASSUME NEW r \in Recoveries, CancelDone(r), r.result # "success" PROVE FALSE
    BY <2>1, <2>2 DEF CancelDone, Recoveries
  <2>3. ~RecFails
    BY <2>1 DEF RecFails, Recoveries
  <2>4. ~UserActs
    <3>1. NoRecovery \in Recoveries /\ NoRecovery.result = "none"
      BY DEF NoRecovery, Recoveries
    <3>2. ASSUME Recover PROVE FALSE
      <4> DEFINE r == [NoRecovery EXCEPT !.skip = (conflict = "push")]
      <4>1. r \in Recoveries /\ r.result = "none"
        BY <3>1 DEF Recoveries
      <4>2. CancelDone(r) \/ recovery' = r
        BY <3>2 DEF Recover
      <4> QED  BY <2>1, <2>2, <4>1, <4>2
    <3> QED  BY <2>1, <3>2 DEF UserActs, LoginUser, RetryIdentityRestore
  <2>5. ~Environment
    BY <2>1 DEF Environment, Restart, Relaunch, Reinstall, Launch, NoRecovery, Logout, PushArrives,
                OtherDevice, Recoveries, Succeeds
  <2>6. ~Calls /\ ~Initializing /\ ~Bootstrapping
    BY <2>1 DEF Calls, Serve, Lose, Unauthorized, Initializing, Initialize, InitEnds, Bootstrapping,
                ColdStart, SignedIn, NotSignedIn, Bootstrapped, RetryRestored, Restore
  <2>7. Recovering
    BY <2>1, <2>4, <2>5, <2>6 DEF Next, vars
  <2>8. Recovered
    BY <2>1, <2>2, <2>3, <2>7
    DEF Recovering, Cancelled, Checked, Reset, WipeKeychain, WipeDatabase, LoggedIn, LoginFails,
        Rechecked, ResetAgain, Recoveries, Succeeds
  <2> QED  BY <2>1, <2>7, <2>8 DEF Recovered, Recoveries
<1> QED  BY <1>1 DEF DeviceInv, Reached, Landed, Excused, ServerHasIt, Paired, PairWhole

\* A recovery that reports success has left both halves of one key pair on the device and its
\* public half registered by the server, unless another device of the account has interfered,
\* the wipe was torn or the launch has logged out (steps 5 to 8 of doRecover), and unless some
\* recovery or login of the behaviour overlaps a restore, a retry or a key generation.
THEOREM HollowSuccessHasCause == Spec => SuccessHasKeys \/ <><<Overlaps>>_vars
<1>1. DeviceInv /\ [Next]_vars =>
        (Succeeds /\ ~torn /\ ~loggedOut => HasPair /\ (recovery.cut \/ serverKey = identityKeyPublic))
  BY SuccessStep
<1>2. UNCHANGED vars => ~Succeeds
  BY DEF vars, Succeeds
<1>3. Spec /\ [][~Overlaps]_vars => []DeviceInv
  BY DeviceInvLasts
<1> QED  BY <1>1, <1>2, <1>3, PTL DEF Spec, SuccessHasKeys
-----------------------------------------------------------------------------
(* The session and its tokens.                                              *)

\* A dead token is on no request.
DeadTokens == token = "dead" => \A t \in Tasks : ~call[t].live

\* An upload that the server will accept is one of the current session.
LiveUploads == \A i \in Inits : call[i].live => token = "live" \/ loggedOut

\* Without a session a live token is of use to a sign-in only.
SignedOut ==
    token = "live" /\ ~auth =>
        Quiet /\ pc["retry"] = "off" /\ pc["boot"] \in {"off", "cold", "verify", "signin"}

\* The key that is being generated is no other's.
NewKeys == \A i \in Inits : pc[i] = "saving" => reg[i] # serverKey

\* A deferred restore has no public row, and no recovery of one wipes.
Deferral ==
    /\ deferred => identityKeyPublic = NoKey \/ pc["retry"] = "restored"
    /\ pc["rec"] \in {"wipe", "wipeDb"} => ~deferred
    /\ pc["rec"] \in {"check", "reset"} /\ ~recovery.wiped => ~deferred

Sessions == DeadTokens /\ LiveUploads /\ SignedOut /\ NewKeys /\ Deferral

LEMMA NotLive ==
    /\ ~Idle.live /\ \A what, key : ~Answer(what, key).live
    /\ \A what, key, tok : Request(what, key, tok).live => tok = "live"
BY DEF Idle, Answer, Request

LEMMA SessionsInit == Init => Sessions
<1> SUFFICES ASSUME Init PROVE Sessions
  OBVIOUS
<1>1. DeadTokens /\ LiveUploads
  BY NotLive, NamesDistinct DEF Init, DeadTokens, LiveUploads
<1>2. SignedOut /\ NewKeys /\ Deferral
  BY NamesDistinct DEF Init, SignedOut, NewKeys, Deferral
<1> QED  BY <1>1, <1>2 DEF Sessions

\* A task's new call is live only if the token is.
LEMMA LiveTaskGoes ==
    ASSUME TypeOK, NEW t \in Tasks, NEW c, call' = [call EXCEPT ![t] = c], c.live => token' = "live"
    PROVE  \A u \in Tasks : call'[u].live => call[u].live \/ token' = "live"
BY DEF TypeOK

LEMMA LiveEnsure ==
    ASSUME TypeOK, NEW c \in {"boot", "retry", "rec"}, NEW next, EnsureKeysInitialized(c, next, token')
    PROVE  \A u \in Tasks : call'[u].live => call[u].live \/ token' = "live"
<1>1. CASE initializationPromise # None
  <2>1. call' = [call EXCEPT ![c] = Idle] /\ c \in Tasks
    BY <1>1, NamesDistinct DEF EnsureKeysInitialized
  <2> QED  BY <2>1, NotLive, LiveTaskGoes
<1>2. CASE initializationPromise = None
  <2>1. PICK i \in Inits :
          call' = [call EXCEPT ![c] = Idle, ![i] = CallOf(FirstStep, identityKeyPublic, token')]
    BY <1>2 DEF EnsureKeysInitialized
  <2>2. ~Idle.live /\ (CallOf(FirstStep, identityKeyPublic, token').live => token' = "live")
    BY NotLive DEF CallOf
  <2> HIDE DEF Idle, CallOf
  <2> QED  BY <2>1, <2>2, NamesDistinct DEF TypeOK
<1> QED  BY <1>1, <1>2

LEMMA LiveRestoreStarts ==
    ASSUME TypeOK, NEW t \in Restorers, RestoreStarts(t, token')
    PROVE  \A u \in Tasks : call'[u].live => call[u].live \/ token' = "live"
<1>1. t \in Tasks
  BY NamesDistinct
<1>2. CASE call' = [call EXCEPT ![t] = Idle]
  BY <1>1, <1>2, NotLive, LiveTaskGoes
<1>3. CASE call' = [call EXCEPT ![t] = Request("bundle", NoKey, token')]
  BY <1>1, <1>3, NotLive, LiveTaskGoes
<1> QED  BY <1>2, <1>3 DEF RestoreStarts, RestoreEnds

LEMMA LiveRecGoes ==
    ASSUME TypeOK, NEW s, NEW c, RecGoesTo(s, c), c.live => token' = "live"
    PROVE  \A u \in Tasks : call'[u].live => call[u].live \/ token' = "live"
BY LiveTaskGoes, NamesDistinct DEF RecGoesTo

LEMMA LiveCancelDone ==
    ASSUME TypeOK, NEW r, CancelDone(r), UNCHANGED token
    PROVE  \A u \in Tasks : call'[u].live => call[u].live \/ token' = "live"
<1>1. \E s, c : RecGoesTo(s, c) /\ (c.live => token' = "live")
  BY NotLive DEF CancelDone, WipeOrLogin
<1> QED  BY <1>1, LiveRecGoes

\* No request is sent with a token other than the stored one.
LEMMA LiveStep ==
    ASSUME TypeOK, [Next]_vars
    PROVE  \A u \in Tasks : call'[u].live => call[u].live \/ token' = "live"
<1>1. CASE Calls
  <2>1. PICK t \in Tasks : Serve(t) \/ Lose(t) \/ Unauthorized(t)
    BY <1>1 DEF Calls
  <2>2. CASE \E what, key : Reply(t, what, key)
    BY <2>2, NotLive, LiveTaskGoes DEF Reply
  <2>3. CASE ServeReset(t)
    <3>1. Revoked(call) \in [Tasks -> CallStates] /\ \A u \in Tasks : ~Revoked(call)[u].live
      BY RevokedType, RevokedKeeps DEF TypeOK
    <3> QED  BY <2>3, <3>1, NotLive DEF ServeReset
  <2> QED  BY <2>1, <2>2, <2>3
           DEF Serve, ServeBundle, ServeUpload, ServeLogin, ServeRevoked, Lose, Unauthorized
<1>2. CASE Initializing
  <2>1. PICK i \in Inits : Initialize(i) \/ InitEnds(i)
    BY <1>2 DEF Initializing
  <2>2. CASE InitEnds(i)
    BY <2>2 DEF InitEnds
  <2>3. CASE Initialize(i)
    <3>1. \E c : call' = [call EXCEPT ![i] = c] /\ (c.live => token = "live")
      BY <2>3, NotLive DEF Initialize, InitSaved, InitProvisioned, InitUploaded, InitRotates,
                           InitMaintained, InitGoesTo, CallOf
    <3>2. token' = token
      BY <2>3 DEF Initialize
    <3> QED  BY <3>1, <3>2, LiveTaskGoes, NamesDistinct
  <2> QED  BY <2>1, <2>2, <2>3
<1>3. CASE Bootstrapping
  <2>1. CASE ColdStart \/ NotSignedIn
    <3>1. \/ call' = call
          \/ \E c : call' = [call EXCEPT !["boot"] = c] /\ (c.live => token' = "live")
      BY <2>1, NotLive DEF ColdStart, NotSignedIn
    <3> QED  BY <3>1, LiveTaskGoes, NamesDistinct
  <2>2. CASE SignedIn
    BY <2>2, LiveRestoreStarts DEF SignedIn, Restorers
  <2>3. CASE Bootstrapped \/ RetryRestored
    <3>1. token' = token
      BY <2>3 DEF Bootstrapped, RetryRestored
    <3> QED  BY <2>3, <3>1, LiveEnsure DEF Bootstrapped, RetryRestored
  <2>4. CASE \E t \in Restorers : Restore(t)
    <3>1. \E t \in Tasks : call' = [call EXCEPT ![t] = Idle]
      BY <2>4, NamesDistinct DEF Restore, RestoreProbed, RestoreCleared, RestoreProvisioned,
                                 RestoreEnds, RestoreDeferred
    <3> QED  BY <3>1, NotLive, LiveTaskGoes
  <2> QED  BY <1>3, <2>1, <2>2, <2>3, <2>4 DEF Bootstrapping
<1>4. CASE Recovering
  <2>1. CASE Cancelled
    BY <2>1, LiveCancelDone DEF Cancelled
  <2>2. CASE Checked \/ Reset \/ WipeKeychain \/ WipeDatabase \/ LoginFails \/ Recovered
    <3>1. token' = token
      BY <2>2 DEF Checked, Reset, WipeKeychain, WipeDatabase, LoginFails, Recovered
    <3>2. \E s, c : RecGoesTo(s, c) /\ (c.live => token = "live")
      BY <2>2, NotLive DEF Checked, Reset, WipeKeychain, WipeDatabase, LoginFails, Recovered,
                           WipeOrLogin, RecFails
    <3> QED  BY <3>1, <3>2, LiveRecGoes
  <2>3. CASE LoggedIn
    BY <2>3, LiveEnsure, LiveRecGoes, NotLive DEF LoggedIn
  <2>4. CASE Rechecked \/ ResetAgain
    <3>1. token' = token
      BY <2>4 DEF Rechecked, ResetAgain
    <3> QED  BY <2>4, <3>1, LiveEnsure, LiveRecGoes, NotLive DEF Rechecked, ResetAgain
  <2> QED  BY <1>4, <2>1, <2>2, <2>3, <2>4 DEF Recovering
<1>5. CASE UserActs
  <2>1. token' = token
    BY <1>5 DEF UserActs, LoginUser, RetryIdentityRestore, Recover
  <2>2. CASE LoginUser
    <3>1. \E c : call' = [call EXCEPT !["boot"] = c] /\ (c.live => token' = "live")
      BY <2>1, <2>2, NotLive DEF LoginUser
    <3> QED  BY <3>1, LiveTaskGoes, NamesDistinct
  <2>3. CASE RetryIdentityRestore
    BY <2>1, <2>3, LiveRestoreStarts DEF RetryIdentityRestore, Restorers
  <2>4. CASE Recover
    BY <2>1, <2>4, LiveCancelDone DEF Recover
  <2> QED  BY <1>5, <2>2, <2>3, <2>4 DEF UserActs
<1>6. CASE Environment
  <2>1. CASE Restart \/ Relaunch \/ Reinstall
    BY <2>1, NotLive DEF Restart, Relaunch, Reinstall, Launch
  <2>2. CASE Logout \/ PushArrives
    BY <2>2 DEF Logout, PushArrives
  <2>3. CASE OtherDevice
    BY <2>3, RevokedKeeps DEF OtherDevice, TypeOK
  <2> QED  BY <1>6, <2>1, <2>2, <2>3 DEF Environment
<1>7. CASE UNCHANGED vars
  BY <1>7 DEF vars
<1> QED  BY <1>1, <1>2, <1>3, <1>4, <1>5, <1>6, <1>7 DEF Next

\* A token dies with every request that carries one.
LEMMA TokenDies ==
    ASSUME TypeOK, [Next]_vars, token' = "dead", token # "dead"
    PROVE  \A t \in Tasks : ~call'[t].live
<1>1. CASE Calls
  <2>1. PICK t \in Tasks : ServeReset(t)
    BY <1>1 DEF Calls, Serve, ServeBundle, ServeUpload, ServeLogin, ServeRevoked, Lose, Unauthorized
  <2>2. Revoked(call) \in [Tasks -> CallStates] /\ \A u \in Tasks : ~Revoked(call)[u].live
    BY RevokedType, RevokedKeeps DEF TypeOK
  <2> QED  BY <2>1, <2>2, NotLive DEF ServeReset
<1>2. CASE Environment
  <2>1. OtherDevice /\ call' = Revoked(call)
    BY <1>2 DEF Environment, Restart, Relaunch, Reinstall, Logout, PushArrives, OtherDevice
  <2> QED  BY <2>1, RevokedKeeps DEF TypeOK
<1>3. ~Initializing /\ ~Recovering /\ ~UserActs
  BY DEF Initializing, Initialize, InitEnds, UserActs, LoginUser, RetryIdentityRestore, Recover,
         Recovering, Cancelled, Checked, Reset, WipeKeychain, WipeDatabase, LoggedIn, LoginFails,
         Rechecked, ResetAgain, Recovered
<1>4. ~Bootstrapping /\ ~UNCHANGED vars
  BY DEF Bootstrapping, ColdStart, SignedIn, NotSignedIn, Bootstrapped, RetryRestored, Restore, vars
<1> QED  BY <1>1, <1>2, <1>3, <1>4 DEF Next

LEMMA DeadTokensStep == ASSUME TypeOK, DeadTokens, [Next]_vars PROVE DeadTokens'
BY LiveStep, TokenDies DEF DeadTokens

\* The token changes hands only so: it dies, is replaced, is cleared by a 401 or a logout.
LEMMA TokenChanges ==
    ASSUME TypeOK, [Next]_vars, token' # token
    PROVE  \/ token' = "live" /\ auth' = TRUE
           \/ token' = "dead" /\ token = "live"
           \/ \E t \in Tasks : Unauthorized(t)
           \/ Logout
<1>1. CASE Calls
  <2>1. PICK t \in Tasks : ServeReset(t) \/ Unauthorized(t)
    BY <1>1 DEF Calls, Serve, ServeBundle, ServeUpload, ServeLogin, ServeRevoked, Lose
  <2> QED  BY <2>1 DEF ServeReset, RevokedToken
<1>2. CASE Environment
  BY <1>2 DEF Environment, Restart, Relaunch, Reinstall, PushArrives, OtherDevice, RevokedToken
<1>3. CASE Recovering
  BY <1>3 DEF Recovering, Cancelled, Checked, Reset, WipeKeychain, WipeDatabase, LoggedIn, LoginFails,
              Rechecked, ResetAgain, Recovered
<1>4. CASE Bootstrapping
  BY <1>4 DEF Bootstrapping, ColdStart, SignedIn, NotSignedIn, Bootstrapped, RetryRestored, Restore
<1>5. ~Initializing /\ ~UserActs /\ ~UNCHANGED vars
  BY DEF Initializing, Initialize, InitEnds, UserActs, LoginUser, RetryIdentityRestore, Recover, vars
<1> QED  BY <1>1, <1>2, <1>3, <1>4, <1>5 DEF Next


\* A 401 reaches no device that is uploading with a live token.
LEMMA UnauthorizedAlone ==
    ASSUME DeviceInv, Sessions, NEW t \in Tasks, Unauthorized(t), NEW i \in Inits, call'[i].live
    PROVE  loggedOut
<1>1. /\ call[t].at = "back" /\ call'[t] = Answer("denied", NoKey)
      /\ \A u \in Tasks : u # t => call'[u] = call[u]
  BY DEF Unauthorized, Answered, Reply, DeviceInv, TypeOK
<1>2. i # t /\ call[i].live /\ i \in Tasks
  BY <1>1, NotLive, NamesDistinct
<1>3. call[i].at = "out" /\ Purpose(pc[t]) # "none" /\ Purpose(pc[i]) # "none"
  BY <1>1, <1>2 DEF DeviceInv, Requests, Fits
<1>4. pc[i] \in {"upload", "replenish"} /\ pc[i] # "off" /\ ~Quiet
  BY <1>3 DEF DeviceInv, Exclusive, Steps, Purpose, Quiet, Late
<1>5. identityKeyPublic # NoKey
  BY <1>4 DEF DeviceInv, Paired, HasPublic, Keyed
<1>6. pc[t] \notin {"off", "cancel", "init", "probe"}
  BY <1>3, <1>5 DEF Purpose, DeviceInv, Paired, Restoring
<1>7. t \notin Inits
  BY <1>2, <1>4, <1>6 DEF DeviceInv, Exclusive, OneInitialization
<1>8. t # "rec"
  BY <1>4, <1>6 DEF DeviceInv, Exclusive, Steps, Settled
<1>9. t = "boot" /\ pc["boot"] = "signin"
  <2>1. t \in Restorers
    BY <1>7, <1>8 DEF Tasks
  <2>2. pc[t] \in {"verify", "signin"}
    BY <1>3, <1>6, <2>1 DEF Purpose, DeviceInv, Exclusive, Steps, Restorers
  <2> QED  BY <1>4, <2>1, <2>2 DEF DeviceInv, Exclusive, Steps, Settled, Restorers
<1>10. ~auth
  BY <1>9 DEF DeviceInv, Exclusive, Alone
<1> QED  BY <1>2, <1>4, <1>10 DEF Sessions, LiveUploads, SignedOut

\* Only a launch reads the cache again.
LEMMA LoggedOutStays ==
    ASSUME [Next]_vars, loggedOut
    PROVE  loggedOut' \/ Launch
BY DEF Next, vars, history, Calls, Serve, Lose, Unauthorized, Initializing, Initialize, InitEnds,
       Bootstrapping, ColdStart, SignedIn, NotSignedIn, Bootstrapped, RetryRestored, Restore,
       Recovering, Cancelled, Checked, Reset, WipeKeychain, WipeDatabase, LoggedIn, LoginFails,
       Rechecked, ResetAgain, Recovered, UserActs, LoginUser, RetryIdentityRestore, Recover,
       Environment, Restart, Relaunch, Reinstall, Logout, PushArrives, OtherDevice

LEMMA LiveUploadsStep ==
    ASSUME DeviceInv, Sessions, [Next]_vars
    PROVE  LiveUploads'
<1> SUFFICES ASSUME NEW i \in Inits, call'[i].live, token' # "live" PROVE loggedOut'
  BY DEF LiveUploads
<1>1. call[i].live /\ TypeOK
  BY LiveStep, NamesDistinct DEF DeviceInv
<1>2. ~Launch
  BY NotLive, NamesDistinct DEF Launch
<1>3. CASE loggedOut
  BY <1>2, <1>3, LoggedOutStays
<1>4. CASE ~loggedOut
  <2>1. token = "live"
    BY <1>1, <1>4 DEF Sessions, LiveUploads
  <2>2. ~\E t \in Tasks : Unauthorized(t)
    BY <1>4, UnauthorizedAlone
  <2>3. ~(token' = "dead")
    BY <1>1, <2>1, TokenDies, NamesDistinct
  <2>4. Logout
    BY <1>1, <2>1, <2>2, <2>3, TokenChanges
  <2> QED  BY <2>4 DEF Logout
<1> QED  BY <1>3, <1>4

LEMMA SignedOutStep ==
    ASSUME DeviceInv, Sessions, [Next]_vars
    PROVE  SignedOut'
<1> SUFFICES ASSUME token' = "live", ~auth'
             PROVE  /\ Quiet' /\ pc'["retry"] = "off"
                    /\ pc'["boot"] \in {"off", "cold", "verify", "signin"}
  BY DEF SignedOut
<1>1. TypeOK
  BY DEF DeviceInv
<1>2. token = "live" /\ (\A t \in Tasks : ~Unauthorized(t)) /\ ~Logout
  BY <1>1, TokenChanges DEF Unauthorized, Logout
<1>3. CASE Launch
  BY <1>3, NamesDistinct DEF Launch, Quiet
<1>4. CASE ~Launch
  <2>1. ~auth
    BY <1>1, <1>2, <1>4
    DEF Next, vars, session, TypeOK, Calls, Serve, Lose, Initializing, Initialize, InitEnds,
        Bootstrapping, ColdStart, SignedIn, NotSignedIn, Bootstrapped, RetryRestored, Restore,
        Recovering, Cancelled, Checked, Reset, WipeKeychain, WipeDatabase, LoggedIn, LoginFails,
        Rechecked, ResetAgain, Recovered, UserActs, LoginUser, RetryIdentityRestore, Recover,
        Environment, Restart, Relaunch, Reinstall, PushArrives, OtherDevice
  <2>2. Quiet /\ pc["retry"] = "off" /\ pc["boot"] \in {"off", "cold", "verify", "signin"}
    BY <1>2, <2>1 DEF Sessions, SignedOut
  <2>3. ~Recovering
    <3>1. pc["rec"] = "off"
      BY <2>1 DEF DeviceInv, Exclusive, Alone
    <3> QED  BY <3>1 DEF Recovering, Cancelled, Checked, Reset, WipeKeychain, WipeDatabase, LoggedIn,
                         LoginFails, Rechecked, ResetAgain, Recovered
  <2>4. ~Initializing
    BY <2>2 DEF Initializing, Initialize, InitSaved, InitProvisioned, InitUploaded, InitRotates,
                InitMaintained, InitEnds, Quiet
  <2>5. CASE pc' = pc
    BY <2>2, <2>5 DEF Quiet
  <2>6. CASE \E s \in {"off", "verify", "signin"} : pc' = [pc EXCEPT !["boot"] = s]
    BY <1>1, <2>2, <2>6, NamesDistinct DEF Quiet, TypeOK
  <2>7. CASE Calls \/ UNCHANGED vars
    BY <2>5, <2>7 DEF Calls, Serve, Lose, Unauthorized, vars
  <2>8. CASE Bootstrapping
    <3>1. ColdStart \/ NotSignedIn
      BY <2>2, <2>8 DEF Bootstrapping, SignedIn, Bootstrapped, RetryRestored, Restore, RestoreProbed,
                        RestoreCleared, RestoreProvisioned, Restorers
    <3> QED  BY <2>6, <3>1 DEF ColdStart, NotSignedIn
  <2>9. CASE UserActs
    BY <2>1, <2>6, <2>9 DEF UserActs, LoginUser, RetryIdentityRestore, Recover
  <2>10. CASE Environment
    BY <1>2, <1>4, <2>5, <2>10 DEF Environment, Restart, Relaunch, Reinstall, PushArrives, OtherDevice
  <2> QED  BY <2>3, <2>4, <2>7, <2>8, <2>9, <2>10 DEF Next
<1> QED  BY <1>3, <1>4

\* The registered key changes by a reset, an upload, or another device.
LEMMA ServerChanges ==
    ASSUME [Next]_vars, serverKey' # serverKey
    PROVE  /\ UNCHANGED <<device, pc, reg, session, history>>
           /\ \/ serverKey' = NoKey
              \/ UNCHANGED token /\ \E t \in Tasks : ServeUpload(t) /\ serverKey' = call[t].key
              \/ serverKey' \in Fresh
<1>1. CASE Calls
  <2>1. PICK t \in Tasks : Serve(t) \/ Lose(t) \/ Unauthorized(t)
    BY <1>1 DEF Calls
  <2>2. Serve(t) /\ (ServeReset(t) \/ ServeUpload(t))
    BY <2>1 DEF Serve, ServeBundle, ServeLogin, ServeRevoked, Lose, Unauthorized
  <2>3. UNCHANGED <<device, pc, reg, session, history>>
    BY <2>2 DEF Serve
  <2> QED  BY <2>2, <2>3 DEF ServeReset, ServeUpload
<1>2. CASE Environment
  BY <1>2 DEF Environment, Restart, Relaunch, Reinstall, Logout, PushArrives, OtherDevice
<1>3. ~Initializing /\ ~Recovering /\ ~UserActs
  BY DEF Initializing, Initialize, InitEnds, UserActs, LoginUser, RetryIdentityRestore, Recover,
         Recovering
<1>4. ~Bootstrapping /\ ~UNCHANGED vars
  BY DEF Bootstrapping, ColdStart, SignedIn, NotSignedIn, Bootstrapped, RetryRestored, Restore, vars
<1> QED  BY <1>1, <1>2, <1>3, <1>4 DEF Next

\* One task other than an initialization takes a step.
LEMMA SavingTaskGoes ==
    ASSUME TypeOK, NEW t \in Tasks, t \notin Inits, NEW s, pc' = [pc EXCEPT ![t] = s],
           reg' = reg \/ \E k : reg' = [reg EXCEPT ![t] = k]
    PROVE  \A i \in Inits : pc'[i] = pc[i] /\ reg'[i] = reg[i]
BY NamesDistinct DEF TypeOK

LEMMA SavingEnsure ==
    ASSUME TypeOK, NEW c \in {"boot", "retry", "rec"}, NEW next, NEW tok,
           EnsureKeysInitialized(c, next, tok), NEW i \in Inits, pc'[i] = "saving"
    PROVE  (pc[i] = "saving" /\ reg'[i] = reg[i]) \/ reg'[i] \in Fresh
<1>1. c \in Tasks /\ c \notin Inits /\ i \in Tasks
  BY NamesDistinct
<1>2. CASE initializationPromise # None
  <2>1. pc' = [pc EXCEPT ![c] = next] /\ reg' = [reg EXCEPT ![c] = NoKey]
    BY <1>2 DEF EnsureKeysInitialized
  <2> QED  BY <1>1, <2>1, SavingTaskGoes
<1>3. CASE initializationPromise = None
  <2>1. PICK j \in Inits : \E k \in IF FirstStep = "saving" THEN Fresh ELSE {NoKey} :
          /\ pc' = [pc EXCEPT ![c] = next, ![j] = FirstStep]
          /\ reg' = [reg EXCEPT ![c] = NoKey, ![j] = k]
    BY <1>3 DEF EnsureKeysInitialized
  <2>2. PICK k \in IF FirstStep = "saving" THEN Fresh ELSE {NoKey} :
          /\ pc' = [pc EXCEPT ![c] = next, ![j] = FirstStep]
          /\ reg' = [reg EXCEPT ![c] = NoKey, ![j] = k]
    BY <2>1
  <2>3. /\ pc'[j] = FirstStep /\ reg'[j] = k
        /\ i # j => pc'[i] = pc[i] /\ reg'[i] = reg[i]
    BY <1>1, <2>2, NamesDistinct DEF TypeOK
  <2>4. FirstStep = "saving" => k \in Fresh
    BY <2>2
  <2> QED  BY <2>3, <2>4
<1> QED  BY <1>2, <1>3

\* A key that is being generated was being generated, or is fresh.
LEMMA SavingStarts ==
    ASSUME TypeOK, [Next]_vars, NEW i \in Inits, pc'[i] = "saving"
    PROVE  (pc[i] = "saving" /\ reg'[i] = reg[i]) \/ reg'[i] \in Fresh
<1>1. i \in Tasks /\ Restorers \cap Inits = {} /\ "rec" \notin Inits /\ "boot" \notin Inits
  BY NamesDistinct DEF Restorers
<1>2. CASE Calls \/ UNCHANGED vars
  BY <1>2 DEF Calls, Serve, Lose, Unauthorized, vars
<1>3. CASE Initializing
  <2>1. PICK j \in Inits : Initialize(j) \/ InitEnds(j)
    BY <1>3 DEF Initializing
  <2>2. CASE InitEnds(j)
    BY <1>1, <2>2, NamesDistinct DEF InitEnds
  <2>3. CASE Initialize(j)
    <3>1. \E s \in PCs \ {"saving"} : \E k : pc' = [pc EXCEPT ![j] = s] /\ reg' = [reg EXCEPT ![j] = k]
      BY <2>3 DEF Initialize, InitSaved, InitProvisioned, InitUploaded, InitRotates, InitMaintained,
                  InitGoesTo, OutcomeOf, PCs
    <3> QED  BY <1>1, <3>1, NamesDistinct DEF TypeOK
  <2> QED  BY <2>1, <2>2, <2>3
<1>4. CASE Bootstrapping
  <2>1. CASE \E t \in Restorers : \E s : /\ pc' = [pc EXCEPT ![t] = s]
                                         /\ reg' = reg \/ \E k : reg' = [reg EXCEPT ![t] = k]
    <3>1. PICK t, s : /\ t \in Restorers /\ pc' = [pc EXCEPT ![t] = s]
                      /\ reg' = reg \/ \E k : reg' = [reg EXCEPT ![t] = k]
      BY <2>1
    <3> QED  BY <1>1, <3>1, SavingTaskGoes, NamesDistinct
  <2>2. CASE \E c \in Restorers : \E next, tok : EnsureKeysInitialized(c, next, tok)
    BY <2>2, SavingEnsure DEF Restorers
  <2>3. CASE \E t \in Restorers : Restore(t)
    <3>1. PICK t \in Restorers : Restore(t)
      BY <2>3
    <3>2. CASE RestoreProbed(t)
      BY <2>1, <3>2 DEF RestoreProbed, RestoreDeferred
    <3>3. CASE RestoreCleared(t) \/ RestoreProvisioned(t)
      BY <2>1, <3>3 DEF RestoreCleared, RestoreProvisioned, RestoreEnds, RestoreDeferred
    <3> QED  BY <3>1, <3>2, <3>3 DEF Restore
  <2>4. CASE ColdStart \/ NotSignedIn
    BY <2>1, <2>4 DEF ColdStart, NotSignedIn, Restorers
  <2>5. CASE SignedIn
    BY <2>1, <2>5 DEF SignedIn, RestoreStarts, RestoreEnds, Restorers
  <2>6. CASE Bootstrapped \/ RetryRestored
    BY <2>1, <2>2, <2>6 DEF Bootstrapped, RetryRestored, Restorers
  <2> QED  BY <1>4, <2>3, <2>4, <2>5, <2>6 DEF Bootstrapping
<1>5. CASE Recovering
  <2>1. CASE \E s, c : RecGoesTo(s, c)
    BY <1>1, <2>1, SavingTaskGoes, NamesDistinct DEF RecGoesTo
  <2>2. CASE \E tok : EnsureKeysInitialized("rec", "init", tok)
    BY <2>2, SavingEnsure
  <2> QED  BY <1>5, <2>1, <2>2
    DEF Recovering, Cancelled, CancelDone, Checked, Reset, WipeKeychain, WipeDatabase, LoggedIn,
        LoginFails, Rechecked, ResetAgain, Recovered, WipeOrLogin, RecFails
<1>6. CASE UserActs
  <2>1. \E t \in Restorers \cup {"rec"} : \E s : /\ pc' = [pc EXCEPT ![t] = s]
                                                 /\ reg' = reg \/ \E k : reg' = [reg EXCEPT ![t] = k]
    BY <1>6 DEF UserActs, LoginUser, RetryIdentityRestore, RestoreStarts, RestoreEnds, Recover,
                CancelDone, WipeOrLogin, RecGoesTo, Restorers
  <2>2. PICK t, s : /\ t \in Restorers \cup {"rec"} /\ pc' = [pc EXCEPT ![t] = s]
                    /\ reg' = reg \/ \E k : reg' = [reg EXCEPT ![t] = k]
    BY <2>1
  <2> QED  BY <1>1, <2>2, SavingTaskGoes, NamesDistinct
<1>7. CASE Environment
  BY <1>1, <1>7, NamesDistinct
  DEF Environment, Restart, Relaunch, Reinstall, Launch, Logout, PushArrives, OtherDevice
<1> QED  BY <1>2, <1>3, <1>4, <1>5, <1>6, <1>7 DEF Next

LEMMA NewKeysStep ==
    ASSUME DeviceInv, Sessions, [Next]_vars
    PROVE  NewKeys'
<1> SUFFICES ASSUME NEW i \in Inits, pc'[i] = "saving" PROVE reg'[i] # serverKey'
  BY DEF NewKeys
<1>1. TypeOK /\ i \in Tasks
  BY NamesDistinct DEF DeviceInv
<1>2. CASE serverKey' = serverKey
  <2>1. serverKey \notin Fresh
    BY FreshType DEF Held
  <2> QED  BY <1>1, <1>2, <2>1, SavingStarts DEF Sessions, NewKeys
<1>3. CASE serverKey' # serverKey
  <2>1. pc[i] = "saving" /\ reg'[i] = reg[i]
    BY <1>3, ServerChanges
  <2>2. identityKeyPublic = NoKey /\ reg[i] # NoKey
    BY <2>1 DEF DeviceInv, Paired, Generating
  <2>3. \A t \in Tasks : ~ServeUpload(t)
    BY <2>2, Uploaders DEF ServeUpload, DeviceInv
  <2>4. reg[i] \notin Fresh
    BY <1>1, FreshType DEF Held
  <2> QED  BY <1>3, <2>1, <2>2, <2>3, <2>4, ServerChanges
<1> QED  BY <1>2, <1>3

\* A restore is deferred by the bootstrap only.
LEMMA DeferredStarts ==
    ASSUME TypeOK, [Next]_vars, deferred', ~deferred
    PROVE  Restore("boot") /\ RestoreDeferred("boot")
<1>1. ~Calls /\ ~Initializing /\ ~UserActs /\ ~Environment /\ ~UNCHANGED vars
  BY DEF Calls, Serve, Lose, Unauthorized, Initializing, Initialize, InitEnds, UserActs, LoginUser,
         RetryIdentityRestore, Recover, Environment, Restart, Relaunch, Reinstall, Launch, Logout,
         PushArrives, OtherDevice, session, vars
<1>2. ~Recovering
  BY DEF Recovering, Cancelled, Checked, Reset, WipeKeychain, WipeDatabase, LoggedIn, LoginFails,
         Rechecked, ResetAgain, Recovered, session
<1>3. \E t \in Restorers : Restore(t)
  BY <1>1, <1>2 DEF Next, Bootstrapping, ColdStart, SignedIn, NotSignedIn, Bootstrapped,
                    RetryRestored, session
<1>4. PICK t \in Restorers : Restore(t)
  BY <1>3
<1>5. RestoreDeferred(t)
  BY <1>4 DEF Restore, RestoreProbed, RestoreCleared, RestoreProvisioned
<1>6. t = "boot"
  BY <1>5 DEF RestoreDeferred, Restorers
<1> QED  BY <1>4, <1>5, <1>6

\* A public row appears by a provisioning, which carried the key.
LEMMA PublicAppears ==
    ASSUME [Next]_vars, identityKeyPublic' # identityKeyPublic, identityKeyPublic' # NoKey
    PROVE  \/ \E i \in Inits : InitProvisioned(i) /\ Initialize(i)
           \/ \E t \in Restorers : RestoreProvisioned(t) /\ Restore(t) /\ RestoreEnds(t)
<1>1. ~Calls /\ ~UserActs /\ ~Environment /\ ~UNCHANGED vars
  BY DEF Calls, Serve, Lose, Unauthorized, UserActs, LoginUser,
         RetryIdentityRestore, Recover, Environment, Restart, Relaunch, Reinstall, Logout,
         PushArrives, OtherDevice, device, vars
<1>2. ~Recovering
  BY DEF Recovering, Cancelled, Checked, Reset, WipeKeychain, WipeDatabase, RowsDeleted, LoggedIn,
         LoginFails, Rechecked, ResetAgain, Recovered, device
<1>3. CASE Initializing
  BY <1>3 DEF Initializing, Initialize, InitSaved, InitUploaded, InitRotates, InitMaintained,
              InitEnds, device
<1>4. CASE Bootstrapping
  <2>1. PICK t \in Restorers : Restore(t)
    BY <1>4 DEF Bootstrapping, ColdStart, SignedIn, NotSignedIn, Bootstrapped, RetryRestored, device
  <2>2. RestoreProvisioned(t) /\ RestoreEnds(t)
    BY <2>1 DEF Restore, RestoreProbed, RestoreCleared, RestoreProvisioned, RestoreDeferred
  <2> QED  BY <2>1, <2>2
<1> QED  BY <1>1, <1>2, <1>3, <1>4 DEF Next

\* A retry that has restored stays so until its initialization.
LEMMA RestoredStays ==
    ASSUME TypeOK, Exclusive, [Next]_vars, pc["retry"] = "restored"
    PROVE  pc'["retry"] = "restored" \/ ~deferred'
<1>1. "retry" \in Tasks /\ "retry" \notin Inits /\ "boot" \in Tasks /\ "rec" \in Tasks
  BY NamesDistinct
<1>2. CASE Calls \/ UNCHANGED vars
  BY <1>2 DEF Calls, Serve, Lose, Unauthorized, vars
<1>3. CASE Initializing
  <2>1. PICK j \in Inits : Initialize(j) \/ InitEnds(j)
    BY <1>3 DEF Initializing
  <2>2. CASE InitEnds(j)
    <3>1. "retry" \notin joined[j]
      BY DEF Exclusive, OneInitialization
    <3> QED  BY <1>1, <2>2, <3>1 DEF InitEnds
  <2>3. CASE Initialize(j)
    <3>1. \E s : pc' = [pc EXCEPT ![j] = s]
      BY <2>3 DEF Initialize, InitSaved, InitProvisioned, InitUploaded, InitRotates, InitMaintained,
                  InitGoesTo
    <3> QED  BY <1>1, <3>1 DEF TypeOK
  <2> QED  BY <2>1, <2>2, <2>3
<1>4. CASE Bootstrapping
  <2>1. CASE \E s : pc' = [pc EXCEPT !["boot"] = s]
    BY <1>1, <2>1 DEF TypeOK
  <2>2. CASE Bootstrapped /\ pc["boot"] = "loading"
    BY <2>2 DEF Exclusive, Alone
  <2>3. CASE Restore("retry")
    BY <2>3 DEF Restore, RestoreProbed, RestoreCleared, RestoreProvisioned
  <2>4. CASE Restore("boot")
    BY <2>1, <2>4 DEF Restore, RestoreProbed, RestoreCleared, RestoreProvisioned, RestoreEnds,
                      RestoreDeferred
  <2>5. CASE RetryRestored
    BY <2>5 DEF RetryRestored
  <2>6. CASE SignedIn \/ ColdStart \/ NotSignedIn \/ (Bootstrapped /\ pc["boot"] # "loading")
    BY <2>1, <2>6 DEF SignedIn, RestoreStarts, RestoreEnds, ColdStart, NotSignedIn, Bootstrapped
  <2> QED  BY <1>4, <2>2, <2>3, <2>4, <2>5, <2>6 DEF Bootstrapping, Restorers
<1>5. ~Recovering
  BY DEF Exclusive, Alone, Recovering, Cancelled, Checked, Reset, WipeKeychain, WipeDatabase,
         LoggedIn, LoginFails, Rechecked, ResetAgain, Recovered
<1>6. CASE UserActs
  <2>1. \E t \in {"boot", "rec"} : \E s : pc' = [pc EXCEPT ![t] = s]
    BY <1>6 DEF UserActs, LoginUser, RetryIdentityRestore, Recover, CancelDone, WipeOrLogin, RecGoesTo
  <2> QED  BY <1>1, <2>1 DEF TypeOK
<1>7. CASE Environment
  BY <1>7 DEF Environment, Restart, Relaunch, Reinstall, Launch, Logout, PushArrives, OtherDevice
<1> QED  BY <1>2, <1>3, <1>4, <1>5, <1>6, <1>7 DEF Next

LEMMA DeferredRowStep ==
    ASSUME DeviceInv, Sessions, [Next]_vars, deferred'
    PROVE  identityKeyPublic' = NoKey \/ pc'["retry"] = "restored"
<1>1. TypeOK /\ Exclusive /\ Restorers \subseteq Tasks
  BY NamesDistinct DEF DeviceInv
<1>2. CASE ~deferred
  <2>1. Restore("boot") /\ RestoreDeferred("boot")
    BY <1>1, <1>2, DeferredStarts
  <2>2. pc["boot"] \in {"probe", "provision"}
    <3>1. pc["boot"] # "clearing"
      BY <1>1, <2>1, NamesDistinct DEF Restore, RestoreCleared, RestoreProbed, RestoreProvisioned, RestoreDeferred, RestoreEnds, TypeOK
    <3> QED  BY <2>1, <3>1 DEF Restore, RestoreProbed, RestoreProvisioned, RestoreCleared
  <2> QED  BY <1>1, <2>1, <2>2, NamesDistinct DEF DeviceInv, Paired, Restoring, RestoreDeferred
<1>3. CASE deferred /\ pc["retry"] = "restored"
  BY <1>1, <1>3, RestoredStays
<1>4. CASE deferred /\ identityKeyPublic = NoKey
  <2>1. CASE \E i \in Inits : InitProvisioned(i)
    BY <1>1, <1>4, <2>1 DEF InitProvisioned, Exclusive, Settled, Settling, Late
  <2>2. CASE RestoreProvisioned("boot")
    BY <1>1, <1>4, <2>2 DEF RestoreProvisioned, Exclusive, Alone
  <2>3. CASE RestoreEnds("retry")
    BY <1>1, <2>3, NamesDistinct DEF RestoreEnds, TypeOK
  <2> QED  BY <1>4, <2>1, <2>2, <2>3, PublicAppears DEF Restorers
<1> QED  BY <1>2, <1>3, <1>4 DEF Sessions, Deferral

\* What the recovery is about to do with the device's keys.
WipesNext == pc["rec"] \in {"wipe", "wipeDb"} \/ (pc["rec"] \in {"check", "reset"} /\ ~recovery.wiped)

LEMMA WipesNextCancelDone ==
    ASSUME DeviceInv, Sessions, NEW r \in Recoveries, CancelDone(r), WipesNext',
           pc["retry"] = "off", pc["rec"] # "wipeDb"
    PROVE  ~deferred
<1>1. recovery' = [r EXCEPT !.wiped = LocallyWiped] /\ recovery'.wiped = LocallyWiped
  BY DEF CancelDone, Recoveries
<1>2. ~LocallyWiped
  <2>1. CASE LocallyWiped
    <3>1. pc'["rec"] \in {"check", "login"}
      BY <2>1, NamesDistinct DEF CancelDone, WipeOrLogin, RecGoesTo, DeviceInv, TypeOK
    <3> QED  BY <1>1, <2>1, <3>1 DEF WipesNext
  <2> QED  BY <2>1
<1> QED  BY <1>2 DEF LocallyWiped, Sessions, Deferral

LEMMA DeferralStep ==
    ASSUME DeviceInv, Sessions, [Next]_vars, ~Overlaps
    PROVE  Deferral'
<1>1. TypeOK /\ Exclusive /\ "rec" \in Tasks /\ "rec" \notin Inits
  BY NamesDistinct DEF DeviceInv
<1>2. deferred' => identityKeyPublic' = NoKey \/ pc'["retry"] = "restored"
  BY DeferredRowStep
<1>3. ASSUME WipesNext, deferred' PROVE FALSE
  <2>1. ~deferred
    BY <1>3 DEF WipesNext, Sessions, Deferral
  <2>2. pc["boot"] # "off"
    BY <1>1, <1>3, <2>1, DeferredStarts DEF Restore, RestoreProbed, RestoreCleared, RestoreProvisioned
  <2> QED  BY <1>1, <1>3, <2>2 DEF WipesNext, Exclusive, Alone
<1>4. ASSUME WipesNext', ~WipesNext PROVE ~deferred'
  <2>1. CASE UNCHANGED pc /\ recovery'.wiped = recovery.wiped
    BY <1>4, <2>1 DEF WipesNext
  <2>2. CASE Calls \/ UNCHANGED vars
    BY <2>1, <2>2 DEF Calls, Serve, Lose, Unauthorized, vars
  <2>3. ~Initializing
    <3>1. ASSUME NEW j \in Inits, Initialize(j) PROVE FALSE
      <4>1. \E s : pc' = [pc EXCEPT ![j] = s]
        BY <3>1 DEF Initialize, InitSaved, InitProvisioned, InitUploaded, InitRotates,
                    InitMaintained, InitGoesTo
      <4>2. pc'["rec"] = pc["rec"] /\ recovery' = recovery
        BY <1>1, <3>1, <4>1 DEF TypeOK, Initialize
      <4> QED  BY <1>4, <4>2 DEF WipesNext
    <3>2. ASSUME NEW j \in Inits, InitEnds(j) PROVE FALSE
      <4>1. pc'["rec"] \in {pc["rec"], "cancelled", "done", "failed", "conflicted"} /\ recovery' = recovery
        BY <1>1, <3>2 DEF InitEnds
      <4> QED  BY <1>4, <4>1 DEF WipesNext
    <3> QED  BY <3>1, <3>2 DEF Initializing
  <2>4. ~Bootstrapping
    BY <1>1, <1>4, BesideRecovery DEF WipesNext
  <2>5. CASE Recovering
    <3>1. CASE Cancelled
      <4>1. pc["retry"] = "off" /\ pc["rec"] # "wipeDb" /\ recovery \in Recoveries /\ deferred' = deferred
        BY <1>1, <3>1 DEF Cancelled, Exclusive, Alone, session, TypeOK, Recoveries
      <4> QED  BY <1>4, <3>1, <4>1, WipesNextCancelDone DEF Cancelled
    <3>2. CASE WipeKeychain \/ Checked \/ Reset
      <4>1. pc["rec"] \in {"wipe", "check", "reset"} /\ recovery.wiped
        BY <1>4, <3>2 DEF WipeKeychain, Checked, Reset, WipesNext
      <4>2. pc'["rec"] \in {"reset", "login", "off"} /\ (pc'["rec"] = "reset" => recovery' = recovery)
        BY <1>1, <1>4, <3>2, <4>1 DEF WipeKeychain, Checked, Reset, WipeOrLogin, RecFails, RecGoesTo, TypeOK, WipesNext
      <4> QED  BY <1>4, <4>1, <4>2 DEF WipesNext
    <3>3. CASE \E tok : EnsureKeysInitialized("rec", "init", tok)
      <4>1. \/ pc' = [pc EXCEPT !["rec"] = "init"]
            \/ \E i \in Inits : \E s : pc' = [pc EXCEPT !["rec"] = "init", ![i] = s]
        BY <3>3 DEF EnsureKeysInitialized
      <4> QED  BY <1>1, <1>4, <4>1 DEF WipesNext, TypeOK
    <3>4. CASE \E s \in PCs \ {"check", "reset", "wipe", "wipeDb"} : \E c : RecGoesTo(s, c)
      BY <1>1, <1>4, <3>4 DEF RecGoesTo, WipesNext, TypeOK
    <3>5. CASE WipeDatabase \/ LoggedIn \/ LoginFails \/ Rechecked \/ ResetAgain \/ Recovered
      BY <3>3, <3>4, <3>5 DEF WipeDatabase, LoggedIn, LoginFails, Rechecked, ResetAgain, Recovered,
                              RecFails, PCs
    <3> QED  BY <2>5, <3>1, <3>2, <3>5 DEF Recovering
  <2>6. CASE UserActs
    <3>1. CASE LoginUser \/ RetryIdentityRestore
      <4>1. recovery' = recovery /\ \E t \in {"boot", "retry"} : \E s : pc' = [pc EXCEPT ![t] = s]
        BY <3>1 DEF LoginUser, RetryIdentityRestore, RestoreStarts, RestoreEnds
      <4>2. pc'["rec"] = pc["rec"]
        BY <1>1, <4>1 DEF TypeOK
      <4> QED  BY <1>4, <4>1, <4>2 DEF WipesNext
    <3>2. CASE Recover
      <4> DEFINE r == [NoRecovery EXCEPT !.skip = (conflict = "push")]
      <4>1. /\ r \in Recoveries /\ pc["rec"] = "off" /\ pc["retry"] = "off" /\ deferred' = deferred
            /\ CancelDone(r) \/ pc'["rec"] = "cancel"
        BY <1>1, <3>2, RecoversAlone DEF Overlaps, Recover, NoRecovery, Recoveries, session, TypeOK
      <4> HIDE DEF r
      <4> QED  BY <1>4, <4>1, WipesNextCancelDone DEF WipesNext
    <3> QED  BY <2>6, <3>1, <3>2 DEF UserActs
  <2>7. CASE Environment
    <3>1. CASE Restart \/ Relaunch \/ Reinstall
      BY <3>1 DEF Restart, Relaunch, Reinstall, Launch
    <3>2. CASE Logout \/ PushArrives \/ OtherDevice
      <4>1. UNCHANGED pc /\ recovery'.wiped = recovery.wiped
        BY <1>1, <3>2 DEF Logout, PushArrives, OtherDevice, TypeOK
      <4> QED  BY <2>1, <4>1
    <3> QED  BY <2>7, <3>1, <3>2 DEF Environment
  <2> QED  BY <2>2, <2>3, <2>4, <2>5, <2>6, <2>7 DEF Next
<1> QED  BY <1>2, <1>3, <1>4 DEF Deferral, WipesNext

LEMMA SessionsStep ==
    ASSUME DeviceInv, Sessions, [Next]_vars, ~Overlaps
    PROVE  Sessions'
BY DeadTokensStep, LiveUploadsStep, SignedOutStep, NewKeysStep, DeferralStep DEF Sessions, DeviceInv
-----------------------------------------------------------------------------
(* A registered key is kept: nothing is on its way that would replace it.   *)

\* A call that ends, or will end, the session of this device.
Doomed(t) ==
    /\ t # "rec" /\ pc[t] # "signin"
    /\ (call[t].at = "out" /\ ~call[t].live) \/ Answered(t, "unauth")

\* A key is being generated that no recovery asked for.
Overwrites(i) == pc[i] = "saving" /\ pc["rec"] = "off" /\ ~loggedOut

\* Nothing is known of a private key, so that the next initialization generates one.
Keyless == identityKeyPublic = NoKey /\ cachedPrivateKey = NoKey /\ ~loggedOut

\* A restore that is discarding the private key, or that found none.
Discards(t) ==
    \/ pc[t] = "clearing"
    \/ pc[t] = "probe" /\ Discarded(t)
    \/ pc[t] \in {"loading", "restored"} /\ Keyless

\* A sign-in would generate a key.
Forgotten == ~auth /\ cachedPrivateKey = NoKey /\ ~loggedOut

Spared ==
    /\ token # "dead"
    /\ \A t \in Tasks : ~Doomed(t)
    /\ \A i \in Inits : ~Overwrites(i)
    /\ \A t \in Restorers : ~Discards(t)
    /\ ~Forgotten
    /\ deferred => ~Keyless

KeySafe == Registered => Spared

LEMMA KeySafeInit == Init => KeySafe
<1> SUFFICES ASSUME Init, Registered PROVE Spared
  BY DEF KeySafe
<1>1. \A t \in Tasks : ~Doomed(t)
  BY DEF Init, Doomed, Idle, Answered
<1>2. cachedPrivateKey # NoKey /\ ~deferred
  BY DEF Init, Registered
<1>3. \A t \in Tasks : pc[t] \in {"cold", "off"}
  BY DEF Init
<1>4. token # "dead"
  BY DEF Init
<1> QED  BY <1>1, <1>2, <1>3, <1>4, NamesDistinct DEF Spared, Overwrites, Discards, Forgotten, Keyless

LEMMA KeychainChanges ==
    ASSUME [Next]_vars, keychain' # keychain
    PROVE  \/ \E i \in Inits : InitSaved(i) /\ UNCHANGED serverKey
           \/ keychain' = NoKey /\ \E t \in Restorers : pc[t] = "clearing"
           \/ keychain' = NoKey /\ pc["rec"] = "wipe"
<1>1. ~Calls /\ ~UserActs /\ ~Environment /\ ~UNCHANGED vars
  BY DEF Calls, Serve, Lose, Unauthorized, UserActs, LoginUser,
         RetryIdentityRestore, Recover, Environment, Restart, Relaunch, Reinstall, Logout,
         PushArrives, OtherDevice, device, vars
<1>2. CASE Recovering
  BY <1>2 DEF Recovering, Cancelled, Checked, Reset, WipeKeychain, WipeDatabase, LoggedIn, LoginFails,
              Rechecked, ResetAgain, Recovered, RemoveSecureItem, device
<1>3. CASE Initializing
  BY <1>3 DEF Initializing, Initialize, InitProvisioned, InitUploaded, InitRotates, InitMaintained,
              InitEnds, device
<1>4. CASE Bootstrapping
  BY <1>4 DEF Bootstrapping, ColdStart, SignedIn, NotSignedIn, Bootstrapped, RetryRestored, Restore,
              RestoreProbed, RestoreCleared, RestoreProvisioned, RestoreDeferred, RemoveSecureItem,
              device
<1> QED  BY <1>1, <1>2, <1>3, <1>4 DEF Next

\* A key becomes registered by an upload of this device.
Uploads(i) ==
    /\ ServeUpload(i) /\ UNCHANGED <<device, pc, reg, session, history, token>>
    /\ pc[i] \in {"upload", "replenish"} /\ identityKeyPublic # NoKey

LEMMA RegisteredBecomes ==
    ASSUME DeviceInv, Sessions, [Next]_vars, Registered', ~Registered
    PROVE  \E i \in Inits : Uploads(i)
<1>1. TypeOK
  BY DEF DeviceInv
<1>2. keychain' = keychain
  <2>1. ASSUME NEW i \in Inits, InitSaved(i), UNCHANGED serverKey PROVE FALSE
    BY <2>1 DEF InitSaved, Sessions, NewKeys, Registered
  <2> QED  BY <2>1, KeychainChanges DEF Registered
<1>3. serverKey' # serverKey /\ serverKey' # NoKey /\ serverKey' \notin Fresh
  BY <1>2, FreshType DEF Registered, Held
<1>4. PICK t \in Tasks : ServeUpload(t) /\ UNCHANGED <<device, pc, reg, session, history, token>>
  BY <1>3, ServerChanges
<1>5. t \in Inits /\ pc[t] \in {"upload", "replenish"} /\ identityKeyPublic # NoKey
  BY <1>4, Uploaders DEF ServeUpload, DeviceInv
<1> QED  BY <1>4, <1>5 DEF Uploads

LEMMA UploadsSpared ==
    ASSUME DeviceInv, Sessions, NEW i \in Inits, Uploads(i)
    PROVE  Spared'
<1>1. /\ UNCHANGED <<keychain, cachedPrivateKey, identityKeyPublic, pc, reg, token, auth, deferred, loggedOut>>
      /\ pc[i] \in {"upload", "replenish"} /\ identityKeyPublic # NoKey
      /\ call[i].live /\ \E what \in {"ok", "conflict"} : Reply(i, what, NoKey)
      /\ i \in Tasks
  BY NamesDistinct DEF Uploads, ServeUpload, device, session, history
<1>2. /\ call'[i].at = "back" /\ call'[i].what \in {"ok", "conflict"}
      /\ \A t \in Tasks : t # i => call'[t] = call[t]
  BY <1>1 DEF Reply, Answer, DeviceInv, TypeOK
<1>3. token # "dead"
  BY <1>1 DEF Sessions, DeadTokens
<1>4. \A t \in Tasks : pc[t] \notin {"probe", "provision", "clearing", "saving"}
  BY <1>1 DEF DeviceInv, Paired, Restoring, Clearing, Generating, Exclusive, Steps, Tasks, Late,
              RecAlone, Restorers
<1>5. pc[i] # "off" /\ ~Quiet
  BY <1>1 DEF Quiet
<1>6. ASSUME NEW t \in Tasks, Doomed(t)' PROVE FALSE
  <2>1. t # i /\ t # "rec" /\ pc[t] # "signin" /\ call[t].at # "none"
    BY <1>1, <1>2, <1>6 DEF Doomed, Answered
  <2>2. Purpose(pc[t]) # "none"
    BY <2>1 DEF DeviceInv, Requests, Fits
  <2>3. pc[t] # "off"
    BY <2>2 DEF Purpose
  <2>4. t \notin Inits
    BY <1>5, <2>1, <2>3 DEF DeviceInv, Exclusive, OneInitialization
  <2>5. t \in Restorers
    BY <2>1, <2>4 DEF Tasks
  <2>6. pc[t] = "verify" /\ t = "boot"
    BY <1>4, <2>1, <2>2, <2>5 DEF Purpose, DeviceInv, Exclusive, Steps, Restorers
  <2> QED  BY <1>5, <2>6 DEF DeviceInv, Exclusive, Settled
<1>7. \A j \in Inits : ~Overwrites(j)'
  BY <1>1, <1>4, NamesDistinct DEF Overwrites
<1>8. ~Keyless' /\ \A t \in Restorers : ~Discards(t)'
  BY <1>1, <1>4, NamesDistinct DEF Discards, Keyless
<1>9. ~Forgotten'
  <2>1. auth \/ loggedOut
    BY <1>1, <1>5 DEF Sessions, LiveUploads, SignedOut
  <2> QED  BY <1>1, <2>1 DEF Forgotten
<1> QED  BY <1>1, <1>3, <1>6, <1>7, <1>8, <1>9 DEF Spared

\* A call that dooms nothing unless the token is dead.
Harmless(c, tok) ==
    /\ c.at = "out" => c.live \/ tok = "dead"
    /\ c.at = "back" => c.what # "unauth"

LEMMA HarmlessCalls ==
    ASSUME NEW tok \in {"none", "live", "dead"}
    PROVE  /\ Harmless(Idle, tok)
           /\ \A what, key : what # "login" => Harmless(Request(what, key, tok), tok)
           /\ \A s, key : Harmless(CallOf(s, key, tok), tok)
<1>1. Harmless(Idle, tok)
  BY DEF Harmless, Idle
<1>2. ASSUME NEW what, NEW key, what # "login" PROVE Harmless(Request(what, key, tok), tok)
  BY <1>2 DEF Harmless, Request, Answer
<1>3. \A s, key : Harmless(CallOf(s, key, tok), tok)
  BY <1>1, <1>2 DEF CallOf
<1> QED  BY <1>1, <1>2, <1>3

LEMMA DoomTaskGoes ==
    ASSUME TypeOK, NEW u \in Tasks, NEW s, NEW c,
           pc' = [pc EXCEPT ![u] = s], call' = [call EXCEPT ![u] = c],
           Harmless(c, token') \/ u = "rec" \/ s = "signin",
           NEW t \in Tasks, Doomed(t)'
    PROVE  Doomed(t) \/ token' = "dead"
<1>1. /\ pc'[u] = s /\ call'[u] = c
      /\ t # u => pc'[t] = pc[t] /\ call'[t] = call[t]
  BY DEF TypeOK
<1> QED  BY <1>1 DEF Doomed, Answered, Harmless

LEMMA DoomEnsure ==
    ASSUME TypeOK, NEW c \in {"boot", "retry", "rec"}, NEW next, EnsureKeysInitialized(c, next, token'),
           token' \in {"none", "live", "dead"}, NEW t \in Tasks, Doomed(t)'
    PROVE  Doomed(t) \/ token' = "dead"
<1>1. c \in Tasks /\ c \notin Inits
  BY NamesDistinct
<1>2. CASE initializationPromise # None
  <2>1. pc' = [pc EXCEPT ![c] = next] /\ call' = [call EXCEPT ![c] = Idle]
    BY <1>2 DEF EnsureKeysInitialized
  <2> QED  BY <1>1, <2>1, HarmlessCalls, DoomTaskGoes
<1>3. CASE initializationPromise = None
  <2>1. PICK i \in Inits :
          /\ pc' = [pc EXCEPT ![c] = next, ![i] = FirstStep]
          /\ call' = [call EXCEPT ![c] = Idle, ![i] = CallOf(FirstStep, identityKeyPublic, token')]
    BY <1>3 DEF EnsureKeysInitialized
  <2>2. /\ call'[c] = Idle /\ call'[i] = CallOf(FirstStep, identityKeyPublic, token')
        /\ t # c /\ t # i => pc'[t] = pc[t] /\ call'[t] = call[t]
    BY <1>1, <2>1, NamesDistinct DEF TypeOK
  <2>3. Harmless(call'[c], token') /\ Harmless(call'[i], token')
    BY <2>2, HarmlessCalls
  <2> QED  BY <2>2, <2>3 DEF Doomed, Answered, Harmless
<1> QED  BY <1>2, <1>3

LEMMA DoomRestoreStarts ==
    ASSUME TypeOK, NEW u \in Restorers, RestoreStarts(u, token'), token' \in {"none", "live", "dead"},
           NEW t \in Tasks, Doomed(t)'
    PROVE  Doomed(t) \/ token' = "dead"
<1>1. \E s, c : /\ pc' = [pc EXCEPT ![u] = s] /\ call' = [call EXCEPT ![u] = c]
                /\ Harmless(c, token')
  BY HarmlessCalls DEF RestoreStarts, RestoreEnds
<1> QED  BY <1>1, DoomTaskGoes, NamesDistinct

LEMMA DoomRecGoes ==
    ASSUME TypeOK, NEW s, NEW c, RecGoesTo(s, c), NEW t \in Tasks, Doomed(t)'
    PROVE  Doomed(t) \/ token' = "dead"
BY DoomTaskGoes, NamesDistinct DEF RecGoesTo

\* A request that will end the session was sent with a token that had died.
LEMMA DoomCalls ==
    ASSUME DeviceInv, Calls, NEW t \in Tasks, Doomed(t)'
    PROVE  Doomed(t) \/ serverKey' = NoKey
<1>1. PICK u \in Tasks : Serve(u) \/ Lose(u) \/ Unauthorized(u)
  BY DEF Calls
<1>2. UNCHANGED pc /\ TypeOK
  BY <1>1 DEF Serve, Lose, Unauthorized, DeviceInv
<1>3. ASSUME NEW what, NEW key, Reply(u, what, key), what # "unauth" PROVE Doomed(t)
  <2>1. call'[u] = Answer(what, key) /\ (t # u => call'[t] = call[t])
    BY <1>2, <1>3 DEF Reply, TypeOK
  <2>2. t # u
    BY <1>3, <2>1 DEF Doomed, Answered, Answer
  <2> QED  BY <1>2, <2>1, <2>2 DEF Doomed, Answered
<1>4. ASSUME Reply(u, "unauth", NoKey), call[u].at = "out",
             ~call[u].live \/ call[u].what = "login"
      PROVE  Doomed(t)
  <2>1. t # u => call'[t] = call[t]
    BY <1>4 DEF Reply
  <2>2. CASE t # u
    BY <1>2, <2>1, <2>2 DEF Doomed, Answered
  <2>3. CASE t = u
    <3>1. call[t].what # "login"
      <4>1. CASE call[t].what = "login"
        <5>1. Purpose(pc[t]) = "login"
          BY <1>4, <2>3, <4>1 DEF DeviceInv, Requests, Fits
        <5>2. pc[t] \in {"signin", "login", "loginAgain"}
          BY <5>1 DEF Purpose
        <5>3. t = "rec" \/ pc[t] = "signin"
          BY <5>2 DEF DeviceInv, Exclusive, Steps, Tasks, Restorers, Late
        <5> QED  BY <1>2, <5>3 DEF Doomed
      <4> QED  BY <4>1
    <3> QED  BY <1>2, <1>4, <2>3, <3>1 DEF Doomed
  <2> QED  BY <2>2, <2>3
<1>5. CASE ServeReset(u)
  BY <1>5 DEF ServeReset
<1>6. CASE ServeBundle(u) \/ ServeUpload(u) \/ ServeLogin(u) \/ Unauthorized(u)
  <2>1. \E what, key : Reply(u, what, key) /\ what # "unauth"
    BY <1>6 DEF ServeBundle, ServeUpload, ServeLogin, Unauthorized
  <2> QED  BY <1>3, <2>1
<1>7. CASE ServeRevoked(u)
  BY <1>4, <1>7 DEF ServeRevoked
<1>8. CASE Lose(u)
  BY <1>3, <1>4, <1>8 DEF Lose, Out
<1> QED  BY <1>1, <1>5, <1>6, <1>7, <1>8 DEF Serve

LEMMA DoomStarts ==
    ASSUME DeviceInv, [Next]_vars, NEW t \in Tasks, Doomed(t)'
    PROVE  Doomed(t) \/ token' = "dead" \/ serverKey' = NoKey
<1>1. /\ TypeOK /\ token \in {"none", "live", "dead"} /\ "boot" \in Tasks
      /\ token' \in {"none", "live", "dead"}
  BY TypeStep, NamesDistinct DEF DeviceInv, TypeOK
<1>2. CASE UNCHANGED <<pc, call>>
  BY <1>2 DEF Doomed, Answered
<1>3. CASE Initializing
  <2>1. PICK i \in Inits : Initialize(i) \/ InitEnds(i)
    BY <1>3 DEF Initializing
  <2>2. CASE InitEnds(i)
    <3>1. call' = call /\ (pc[t] = "signin" => pc'[t] = "signin")
      <4>1. "retry" \in joined[i] => pc["retry"] = "init"
        BY DEF DeviceInv, Exclusive, OneInitialization
      <4>2. "rec" \in joined[i] => pc["rec"] \in {"cancel", "init"}
        BY DEF DeviceInv, Exclusive, OneInitialization
      <4> QED  BY <2>2, <4>1, <4>2 DEF InitEnds
    <3> QED  BY <3>1 DEF Doomed, Answered
  <2>3. CASE Initialize(i)
    <3>1. token' = token
      BY <2>3 DEF Initialize
    <3>2. \E s, c : pc' = [pc EXCEPT ![i] = s] /\ call' = [call EXCEPT ![i] = c] /\ Harmless(c, token)
      BY <1>1, <2>3, HarmlessCalls DEF Initialize, InitSaved, InitProvisioned, InitUploaded, InitRotates,
                                       InitMaintained, InitGoesTo
    <3> QED  BY <1>1, <3>1, <3>2, DoomTaskGoes, NamesDistinct
  <2> QED  BY <2>1, <2>2, <2>3
<1>4. CASE Bootstrapping
  <2>1. CASE ColdStart
    <3>1. CASE pc' = [pc EXCEPT !["boot"] = "off"] /\ UNCHANGED call
      <4>1. \A u \in Tasks : pc[u] = "signin" => pc'[u] = pc[u]
        BY <1>1, <2>1, <3>1 DEF ColdStart, TypeOK
      <4> QED  BY <3>1, <4>1 DEF Doomed, Answered
    <3>2. CASE /\ pc' = [pc EXCEPT !["boot"] = "verify"] /\ token' = token
               /\ call' = [call EXCEPT !["boot"] = Request("verify", NoKey, token)]
      BY <1>1, <3>2, HarmlessCalls, DoomTaskGoes
    <3> QED  BY <2>1, <3>1, <3>2 DEF ColdStart
  <2>2. CASE NotSignedIn
    BY <1>1, <2>2, HarmlessCalls, DoomTaskGoes DEF NotSignedIn
  <2>3. CASE SignedIn
    BY <1>1, <2>3, DoomRestoreStarts DEF SignedIn, Restorers
  <2>4. CASE Bootstrapped
    <3>1. token' = token
      BY <2>4 DEF Bootstrapped
    <3>2. CASE pc["boot"] = "deferred" /\ pc' = [pc EXCEPT !["boot"] = "off"] /\ UNCHANGED call
      <4>1. \A u \in Tasks : pc[u] = "signin" => pc'[u] = pc[u]
        BY <1>1, <3>2 DEF TypeOK
      <4> QED  BY <3>2, <4>1 DEF Doomed, Answered
    <3> QED  BY <1>1, <2>4, <3>1, <3>2, DoomEnsure DEF Bootstrapped
  <2>5. CASE RetryRestored
    <3>1. token' = token
      BY <2>5 DEF RetryRestored
    <3> QED  BY <1>1, <2>5, <3>1, DoomEnsure DEF RetryRestored
  <2>6. CASE \E u \in Restorers : Restore(u)
    <3>1. \E u \in Tasks : \E s : pc' = [pc EXCEPT ![u] = s] /\ call' = [call EXCEPT ![u] = Idle]
      BY <2>6, NamesDistinct DEF Restore, RestoreProbed, RestoreCleared, RestoreProvisioned,
                                 RestoreEnds, RestoreDeferred
    <3> QED  BY <1>1, <3>1, HarmlessCalls, DoomTaskGoes
  <2> QED  BY <1>4, <2>1, <2>2, <2>3, <2>4, <2>5, <2>6 DEF Bootstrapping
<1>5. CASE \E s, c : RecGoesTo(s, c)
  BY <1>1, <1>5, DoomRecGoes
<1>6. CASE Recovering
  <2>1. CASE LoggedIn \/ Rechecked \/ ResetAgain
    BY <1>1, <1>5, <2>1, DoomEnsure DEF LoggedIn, Rechecked, ResetAgain
  <2> QED  BY <1>5, <1>6, <2>1
           DEF Recovering, Cancelled, CancelDone, Checked, Reset, WipeKeychain, WipeDatabase,
               LoginFails, Recovered, WipeOrLogin, RecFails
<1>7. CASE UserActs
  <2>1. token' = token
    BY <1>7 DEF UserActs, LoginUser, RetryIdentityRestore, Recover
  <2>2. CASE LoginUser
    BY <1>1, <2>2, DoomTaskGoes DEF LoginUser
  <2>3. CASE RetryIdentityRestore
    BY <1>1, <2>1, <2>3, DoomRestoreStarts DEF RetryIdentityRestore, Restorers
  <2>4. CASE Recover /\ initializationPromise # None
    <3>1. pc' = [pc EXCEPT !["rec"] = "cancel"] /\ UNCHANGED call
      BY <2>4 DEF Recover
    <3>2. t # "rec" => pc'[t] = pc[t]
      BY <1>1, <3>1 DEF TypeOK
    <3> QED  BY <3>1, <3>2 DEF Doomed, Answered
  <2>5. CASE Recover /\ initializationPromise = None
    BY <1>5, <2>5 DEF Recover, CancelDone, WipeOrLogin
  <2> QED  BY <1>7, <2>2, <2>3, <2>4, <2>5 DEF UserActs
<1>8. CASE Environment
  <2>1. CASE Restart \/ Relaunch \/ Reinstall
    BY <2>1 DEF Restart, Relaunch, Reinstall, Launch, Doomed, Idle, Answered
  <2>2. CASE Logout \/ PushArrives
    BY <1>2, <2>2 DEF Logout, PushArrives
  <2>3. CASE OtherDevice
    BY <1>2, <2>3 DEF OtherDevice
  <2> QED  BY <1>8, <2>1, <2>2, <2>3 DEF Environment
<1>9. CASE UNCHANGED vars
  BY <1>2, <1>9 DEF vars
<1> QED  BY <1>3, <1>4, <1>6, <1>7, <1>8, <1>9, DoomCalls DEF Next

LEMMA DeadTokenHasNoKey ==
    ASSUME [Next]_vars, token' = "dead", token # "dead"
    PROVE  serverKey' = NoKey
<1>1. CASE Calls
  <2>1. PICK t \in Tasks : ServeReset(t)
    BY <1>1 DEF Calls, Serve, ServeBundle, ServeUpload, ServeLogin, ServeRevoked, Lose, Unauthorized
  <2> QED  BY <2>1 DEF ServeReset
<1>2. CASE Environment
  BY <1>2 DEF Environment, Restart, Relaunch, Reinstall, Logout, PushArrives, OtherDevice
<1>3. ~Initializing /\ ~Recovering /\ ~UserActs
  BY DEF Initializing, Initialize, InitEnds, UserActs, LoginUser, RetryIdentityRestore, Recover,
         Recovering, Cancelled, Checked, Reset, WipeKeychain, WipeDatabase, LoggedIn, LoginFails,
         Rechecked, ResetAgain, Recovered
<1>4. ~Bootstrapping /\ ~UNCHANGED vars
  BY DEF Bootstrapping, ColdStart, SignedIn, NotSignedIn, Bootstrapped, RetryRestored, Restore, vars
<1> QED  BY <1>1, <1>2, <1>3, <1>4 DEF Next

LEMMA LaunchReads ==
    ASSUME TypeOK, [Next]_vars, Launch, Registered'
    PROVE  cachedPrivateKey' # NoKey
<1>1. keychain' = keychain \/ keychain' = NoKey \/ \E i \in Inits : InitSaved(i)
  BY KeychainChanges
<1>2. \A i \in Inits : ~InitSaved(i)
  BY NamesDistinct DEF InitSaved, InitGoesTo, Launch, TypeOK
<1> QED  BY <1>1, <1>2 DEF Launch, Registered

\* What empties the cache, and what deletes the public row.
LEMMA CacheVanishes ==
    ASSUME DeviceInv, [Next]_vars, cachedPrivateKey # NoKey, cachedPrivateKey' = NoKey
    PROVE  \/ \E t \in Restorers : pc[t] = "clearing"
           \/ pc["rec"] = "wipeDb" \/ Logout \/ Launch
<1>1. ~Calls /\ ~UserActs /\ ~UNCHANGED vars
  BY DEF Calls, Serve, Lose, Unauthorized, UserActs, LoginUser, RetryIdentityRestore, Recover,
         device, vars
<1>2. ~Initializing
  BY DEF Initializing, Initialize, InitSaved, InitProvisioned, InitUploaded, InitRotates,
         InitMaintained, InitEnds, device, DeviceInv, Paired, Generating
<1>3. Recovering => pc["rec"] = "wipeDb"
  BY DEF Recovering, Cancelled, Checked, Reset, WipeKeychain, WipeDatabase, LoggedIn, LoginFails,
         Rechecked, ResetAgain, Recovered, device
<1>4. Bootstrapping => \E t \in Restorers : pc[t] = "clearing"
  BY DEF Bootstrapping, ColdStart, SignedIn, NotSignedIn, Bootstrapped, RetryRestored, Restore,
         RestoreProbed, RestoreCleared, RestoreProvisioned, RestoreDeferred, device
<1>5. Environment => Logout \/ Launch
  BY DEF Environment, Restart, Relaunch, Reinstall, PushArrives, OtherDevice, device
<1> QED  BY <1>1, <1>2, <1>3, <1>4, <1>5 DEF Next

LEMMA PublicVanishes ==
    ASSUME DeviceInv, [Next]_vars, identityKeyPublic # NoKey, identityKeyPublic' = NoKey
    PROVE  pc["rec"] = "wipeDb" \/ Launch
<1>1. ~Calls /\ ~UserActs /\ ~UNCHANGED vars
  BY DEF Calls, Serve, Lose, Unauthorized, UserActs, LoginUser, RetryIdentityRestore, Recover,
         device, vars
<1>2. ~Initializing
  BY NamesDistinct
     DEF Initializing, Initialize, InitSaved, InitProvisioned, InitUploaded, InitRotates,
         InitMaintained, InitEnds, device, DeviceInv, Paired, Restoring
<1>3. Recovering => pc["rec"] = "wipeDb"
  BY DEF Recovering, Cancelled, Checked, Reset, WipeKeychain, WipeDatabase, LoggedIn, LoginFails,
         Rechecked, ResetAgain, Recovered, device
<1>4. ~Bootstrapping
  BY NamesDistinct
     DEF Bootstrapping, ColdStart, SignedIn, NotSignedIn, Bootstrapped, RetryRestored, Restore,
         RestoreProbed, RestoreCleared, RestoreProvisioned, RestoreDeferred, device, DeviceInv,
         Paired, Restoring
<1>5. Environment => Launch
  BY DEF Environment, Restart, Relaunch, Reinstall, Logout, PushArrives, OtherDevice, device
<1> QED  BY <1>1, <1>2, <1>3, <1>4, <1>5 DEF Next

LEMMA KeylessStarts ==
    ASSUME DeviceInv, Spared, [Next]_vars, Registered', Keyless', ~Keyless
    PROVE  pc["rec"] = "wipeDb"
<1>1. ~Launch
  BY LaunchReads DEF Keyless, DeviceInv
<1>2. ~loggedOut /\ ~Logout
  BY <1>1, LoggedOutStays DEF Keyless, Logout
<1>3. \A t \in Restorers : pc[t] # "clearing"
  BY DEF Spared, Discards
<1> QED  BY <1>1, <1>2, <1>3, CacheVanishes, PublicVanishes DEF Keyless

\* Nobody is signed out in a launch that knows the private key, but by a doomed call.
LEMMA ForgottenStep ==
    ASSUME DeviceInv, Spared, [Next]_vars, Registered'
    PROVE  ~Forgotten'
<1> SUFFICES ASSUME Forgotten' PROVE FALSE
  OBVIOUS
<1>1. ~Launch
  BY LaunchReads DEF Forgotten, DeviceInv
<1>2. ~loggedOut /\ ~Logout
  BY <1>1, LoggedOutStays DEF Forgotten, Logout
<1>3. CASE auth
  <2>1. \E t \in Tasks : Unauthorized(t) /\ pc["rec"] = "off"
    BY <1>1, <1>2, <1>3
    DEF Forgotten, Next, vars, session, Calls, Serve, Lose, Unauthorized, Initializing, Initialize, InitEnds,
        Bootstrapping, ColdStart, SignedIn, NotSignedIn, Bootstrapped, RetryRestored, Restore,
        Recovering, Cancelled, Checked, Reset, WipeKeychain, WipeDatabase, LoggedIn, LoginFails,
        Rechecked, ResetAgain, Recovered, UserActs, LoginUser, RetryIdentityRestore, Recover,
        Environment, Restart, Relaunch, Reinstall, PushArrives, OtherDevice
  <2>2. PICK t \in Tasks : Unauthorized(t) /\ pc["rec"] = "off"
    BY <2>1
  <2>3. Answered(t, "unauth") /\ Purpose(pc[t]) # "none"
    BY <2>2 DEF Unauthorized, Answered, DeviceInv, Requests, Fits
  <2>4. t # "rec"
    BY <2>2, <2>3 DEF Purpose
  <2>5. pc[t] # "signin"
    BY <1>3, <2>4 DEF DeviceInv, Exclusive, Steps, Alone, Tasks, Restorers, Late
  <2> QED  BY <2>3, <2>4, <2>5 DEF Spared, Doomed
<1>4. CASE ~auth
  <2>1. cachedPrivateKey # NoKey
    BY <1>2, <1>4 DEF Spared, Forgotten
  <2>2. pc["rec"] # "wipeDb"
    BY <1>4 DEF DeviceInv, Exclusive, Alone
  <2>3. \A t \in Restorers : pc[t] # "clearing"
    BY DEF Spared, Discards
  <2> QED  BY <1>1, <1>2, <2>1, <2>2, <2>3, CacheVanishes DEF Forgotten
<1> QED  BY <1>3, <1>4

LEMMA DeferredKeepsKey ==
    ASSUME DeviceInv, Sessions, Spared, [Next]_vars, Registered', deferred'
    PROVE  ~Keyless'
<1> SUFFICES ASSUME Keyless' PROVE FALSE
  OBVIOUS
<1>1. ASSUME ~deferred
      PROVE  pc["boot"] \in {"probe", "provision"} /\ UNCHANGED <<cachedPrivateKey, loggedOut>>
  <2>1. Restore("boot") /\ RestoreDeferred("boot")
    BY <1>1, DeferredStarts DEF DeviceInv
  <2>2. pc["boot"] # "clearing"
    BY NamesDistinct DEF Spared, Discards, Restorers
  <2> QED  BY <2>1, <2>2 DEF Restore, RestoreProbed, RestoreProvisioned, RestoreCleared, RestoreDeferred, history
<1>2. CASE pc["rec"] = "wipeDb"
  BY <1>1, <1>2 DEF Sessions, Deferral, DeviceInv, Exclusive, Alone
<1>3. CASE Keyless
  <2>1. ~deferred
    BY <1>3 DEF Spared
  <2>2. cachedPrivateKey # NoKey
    BY <1>1, <1>3, <2>1, NamesDistinct DEF DeviceInv, Paired, Restoring, Keyless
  <2> QED  BY <1>3, <2>2 DEF Keyless
<1> QED  BY <1>2, <1>3, KeylessStarts

\* A restore discards the key on an answer only, and asks with the key the device holds.
LEMMA ClearingStarts ==
    ASSUME TypeOK, [Next]_vars, NEW t \in Restorers, pc'[t] = "clearing"
    PROVE  pc[t] = "clearing" \/ (pc[t] = "probe" /\ Discarded(t))
<1>1. t \in Tasks /\ t \notin Inits /\ t # "rec"
  BY NamesDistinct DEF Restorers
<1>2. CASE Calls \/ UNCHANGED vars
  BY <1>2 DEF Calls, Serve, Lose, Unauthorized, vars
<1>3. CASE \E u \in Tasks, s \in PCs \ {"clearing"} : pc' = [pc EXCEPT ![u] = s]
  BY <1>1, <1>3 DEF TypeOK
<1>4. CASE \E c \in {"boot", "retry", "rec"}, next \in {"off", "init"} : \E tok :
             EnsureKeysInitialized(c, next, tok)
  <2>1. PICK c \in {"boot", "retry", "rec"}, next \in {"off", "init"} : \E tok :
          EnsureKeysInitialized(c, next, tok)
    BY <1>4
  <2>2. \/ pc' = [pc EXCEPT ![c] = next]
        \/ \E i \in Inits : pc' = [pc EXCEPT ![c] = next, ![i] = FirstStep]
    BY <2>1 DEF EnsureKeysInitialized
  <2>3. FirstStep # "clearing"
    BY DEF FirstStep
  <2> QED  BY <1>1, <2>2, <2>3 DEF TypeOK
<1>5. CASE Initializing
  <2>1. PICK j \in Inits : Initialize(j) \/ InitEnds(j)
    BY <1>5 DEF Initializing
  <2>2. CASE InitEnds(j)
    BY <1>1, <2>2 DEF InitEnds
  <2>3. CASE Initialize(j)
    <3>1. \E s : pc' = [pc EXCEPT ![j] = s]
      BY <2>3 DEF Initialize, InitSaved, InitProvisioned, InitUploaded, InitRotates, InitMaintained,
                  InitGoesTo
    <3> QED  BY <1>1, <3>1 DEF TypeOK
  <2> QED  BY <2>1, <2>2, <2>3
<1>6. CASE Bootstrapping
  <2>1. CASE ColdStart \/ NotSignedIn \/ SignedIn
    BY <1>1, <2>1, NamesDistinct DEF ColdStart, NotSignedIn, SignedIn, RestoreStarts, RestoreEnds, TypeOK
  <2>2. CASE Bootstrapped \/ RetryRestored
    BY <1>1, <1>4, <2>2, NamesDistinct DEF Bootstrapped, RetryRestored, TypeOK
  <2>3. CASE \E u \in Restorers : Restore(u)
    <3>1. PICK u \in Restorers : Restore(u)
      BY <2>3
    <3>2. u # t => pc'[t] = pc[t]
      BY <1>1, <3>1 DEF Restore, RestoreProbed, RestoreCleared, RestoreProvisioned, RestoreEnds,
                        RestoreDeferred, TypeOK
    <3>3. CASE u = t
      BY <1>1, <3>1, <3>3 DEF Restore, RestoreProbed, RestoreCleared, RestoreProvisioned, RestoreEnds,
                              RestoreDeferred, TypeOK
    <3> QED  BY <3>2, <3>3
  <2> QED  BY <1>6, <2>1, <2>2, <2>3 DEF Bootstrapping
<1>7. CASE Recovering
  <2>1. (\E s, c : RecGoesTo(s, c)) \/ \E tok : EnsureKeysInitialized("rec", "init", tok)
    BY <1>7 DEF Recovering, Cancelled, CancelDone, Checked, Reset, WipeKeychain, WipeDatabase, LoggedIn,
                LoginFails, Rechecked, ResetAgain, Recovered, WipeOrLogin, RecFails
  <2>2. CASE \E s, c : RecGoesTo(s, c)
    BY <1>1, <2>2 DEF RecGoesTo, TypeOK
  <2> QED  BY <1>4, <2>1, <2>2
<1>8. CASE UserActs
  <2>1. CASE Recover
    <3>1. \E s : pc' = [pc EXCEPT !["rec"] = s]
      BY <2>1 DEF Recover, CancelDone, WipeOrLogin, RecGoesTo
    <3> QED  BY <1>1, <3>1 DEF TypeOK
  <2>2. CASE LoginUser \/ RetryIdentityRestore
    BY <1>1, <2>2 DEF LoginUser, RetryIdentityRestore, RestoreStarts, RestoreEnds, TypeOK
  <2> QED  BY <1>8, <2>1, <2>2 DEF UserActs
<1>9. CASE Environment
  BY <1>1, <1>9 DEF Environment, Restart, Relaunch, Reinstall, Launch, Logout, PushArrives, OtherDevice
<1> QED  BY <1>2, <1>5, <1>6, <1>7, <1>8, <1>9 DEF Next

\* A restore that has begun to probe has no answer yet that discards the key.
LEMMA ProbeStarts ==
    ASSUME TypeOK, [Next]_vars, NEW t \in Restorers, pc'[t] = "probe"
    PROVE  \/ /\ pc[t] = "probe" /\ reg'[t] = reg[t]
              /\ call'[t] = call[t] \/ Calls \/ OtherDevice
           \/ ~Discarded(t)'
<1>1. t \in Tasks /\ t \notin Inits /\ t # "rec"
  BY NamesDistinct DEF Restorers
<1>2. CASE UNCHANGED <<pc, reg>> /\ (UNCHANGED call \/ Calls \/ OtherDevice)
  BY <1>2
<1>3. CASE \E tok : RestoreStarts(t, tok)
  <2>1. PICK tok : RestoreStarts(t, tok)
    BY <1>3
  <2>2. call'[t] = Request("bundle", NoKey, tok)
    BY <1>1, <2>1 DEF RestoreStarts, RestoreEnds, TypeOK
  <2> QED  BY <2>2 DEF Discarded, Answered, Request, Answer
<1>4. CASE \E c \in {"boot", "retry", "rec"}, next \in {"off", "init"} : \E tok :
             EnsureKeysInitialized(c, next, tok)
  <2>1. PICK c \in {"boot", "retry", "rec"}, next \in {"off", "init"} : \E tok :
          EnsureKeysInitialized(c, next, tok)
    BY <1>4
  <2>2. \/ pc' = [pc EXCEPT ![c] = next] /\ reg' = [reg EXCEPT ![c] = NoKey]
           /\ call' = [call EXCEPT ![c] = Idle]
        \/ \E i \in Inits : \E s, k, m : /\ pc' = [pc EXCEPT ![c] = next, ![i] = s]
                                         /\ reg' = [reg EXCEPT ![c] = NoKey, ![i] = k]
                                         /\ call' = [call EXCEPT ![c] = Idle, ![i] = m]
    BY <2>1 DEF EnsureKeysInitialized
  <2> QED  BY <1>1, <2>2 DEF TypeOK
<1>5. CASE Initializing
  <2>1. PICK j \in Inits : Initialize(j) \/ InitEnds(j)
    BY <1>5 DEF Initializing
  <2>2. CASE InitEnds(j)
    BY <1>1, <2>2 DEF InitEnds
  <2>3. CASE Initialize(j)
    <3>1. \E s, k, m : /\ pc' = [pc EXCEPT ![j] = s] /\ reg' = [reg EXCEPT ![j] = k]
                     /\ call' = [call EXCEPT ![j] = m]
      BY <2>3 DEF Initialize, InitSaved, InitProvisioned, InitUploaded, InitRotates, InitMaintained,
                  InitGoesTo
    <3> QED  BY <1>1, <3>1 DEF TypeOK
  <2> QED  BY <2>1, <2>2, <2>3
<1>6. CASE Bootstrapping
  <2>1. CASE ColdStart \/ NotSignedIn
    BY <1>1, <2>1, NamesDistinct DEF ColdStart, NotSignedIn, TypeOK
  <2>2. CASE SignedIn
    <3>1. t # "boot" => pc'[t] = pc[t] /\ reg'[t] = reg[t] /\ call'[t] = call[t]
      BY <1>1, <2>2 DEF SignedIn, RestoreStarts, RestoreEnds, TypeOK
    <3> QED  BY <1>3, <2>2, <3>1 DEF SignedIn
  <2>3. CASE Bootstrapped \/ RetryRestored
    BY <1>1, <1>4, <2>3, NamesDistinct DEF Bootstrapped, RetryRestored, TypeOK
  <2>4. CASE \E u \in Restorers : Restore(u)
    <3>1. PICK u \in Restorers : Restore(u)
      BY <2>4
    <3>2. u # t => pc'[t] = pc[t] /\ reg'[t] = reg[t] /\ call'[t] = call[t]
      BY <1>1, <3>1 DEF Restore, RestoreProbed, RestoreCleared, RestoreProvisioned, RestoreEnds,
                        RestoreDeferred, TypeOK
    <3>3. CASE u = t
      BY <1>1, <3>1, <3>3, NamesDistinct
         DEF Restore, RestoreProbed, RestoreCleared, RestoreProvisioned, RestoreEnds,
             RestoreDeferred, TypeOK
    <3> QED  BY <3>2, <3>3
  <2> QED  BY <1>6, <2>1, <2>2, <2>3, <2>4 DEF Bootstrapping
<1>7. CASE Recovering
  <2>1. (\E s, c : RecGoesTo(s, c)) \/ \E tok : EnsureKeysInitialized("rec", "init", tok)
    BY <1>7 DEF Recovering, Cancelled, CancelDone, Checked, Reset, WipeKeychain, WipeDatabase, LoggedIn,
                LoginFails, Rechecked, ResetAgain, Recovered, WipeOrLogin, RecFails
  <2>2. CASE \E s, c : RecGoesTo(s, c)
    BY <1>1, <2>2 DEF RecGoesTo, TypeOK
  <2> QED  BY <1>4, <2>1, <2>2
<1>8. CASE UserActs
  <2>1. CASE Recover
    <3>1. /\ \E s : pc' = [pc EXCEPT !["rec"] = s]
          /\ reg' = reg /\ (call' = call \/ \E m : call' = [call EXCEPT !["rec"] = m])
      BY <2>1 DEF Recover, CancelDone, WipeOrLogin, RecGoesTo
    <3> QED  BY <1>1, <3>1 DEF TypeOK
  <2>2. CASE LoginUser
    BY <1>1, <2>2 DEF LoginUser, TypeOK
  <2>3. CASE RetryIdentityRestore
    <3>1. t # "retry" => pc'[t] = pc[t] /\ reg'[t] = reg[t] /\ call'[t] = call[t]
      BY <1>1, <2>3 DEF RetryIdentityRestore, RestoreStarts, RestoreEnds, TypeOK
    <3> QED  BY <1>3, <2>3, <3>1 DEF RetryIdentityRestore
  <2> QED  BY <1>8, <2>1, <2>2, <2>3 DEF UserActs
<1>9. CASE Environment
  BY <1>1, <1>2, <1>9 DEF Environment, Restart, Relaunch, Reinstall, Launch, Logout, PushArrives, OtherDevice
<1>10. CASE Calls \/ UNCHANGED vars
  BY <1>2, <1>10 DEF Calls, Serve, Lose, Unauthorized, vars
<1> QED  BY <1>5, <1>6, <1>7, <1>8, <1>9, <1>10 DEF Next

\* A restore's answer is the server's: it does not discard the key that is registered.
LEMMA AnswerSpares ==
    ASSUME DeviceInv, Spared, [Next]_vars, Registered', NEW t \in Restorers,
           pc'[t] = "probe", keychain' = keychain
    PROVE  ~Discarded(t)'
<1> SUFFICES ASSUME pc[t] = "probe", reg'[t] = reg[t],
                    call'[t] = call[t] \/ Calls \/ OtherDevice
             PROVE  ~Discarded(t)'
  BY ProbeStarts DEF DeviceInv
<1>1. t \in Tasks /\ TypeOK /\ keychain = reg[t] /\ ~Discarded(t)
  BY NamesDistinct DEF DeviceInv, Paired, Restoring, Spared, Discards
<1>2. CASE call'[t] = call[t]
  BY <1>1, <1>2 DEF Discarded, Answered
<1>3. CASE Calls
  <2>1. PICK u \in Tasks : Serve(u) \/ Lose(u) \/ Unauthorized(u)
    BY <1>3 DEF Calls
  <2>2. CASE ServeReset(u)
    BY <2>2 DEF ServeReset, Registered
  <2>3. CASE u # t /\ \E what, key : Reply(u, what, key)
    BY <1>1, <1>2, <2>3 DEF Reply, TypeOK
  <2>4. CASE \E what \in {"unauth", "denied", "lost", "refused", "conflict"} : \E key : Reply(t, what, key)
    BY <1>1, <2>4 DEF Reply, Answer, Discarded, Answered, TypeOK
  <2>5. CASE u = t /\ ServeBundle(t)
    <3>1. serverKey' = serverKey /\ serverKey = keychain /\ serverKey # NoKey
      BY <1>1, <2>5 DEF ServeBundle, Registered
    <3>2. call'[t] = Answer("ok", serverKey)
      BY <1>1, <2>5, <3>1 DEF ServeBundle, Reply, TypeOK
    <3> QED  BY <1>1, <3>1, <3>2 DEF Answer, Discarded, Answered
  <2>6. call[t].at = "out" => call[t].what = "bundle"
    BY <1>1 DEF DeviceInv, Requests, Fits, Purpose
  <2>7. ~ServeUpload(t) /\ ~ServeLogin(t)
    BY <2>6 DEF ServeUpload, ServeLogin, Out
  <2> QED  BY <2>1, <2>2, <2>3, <2>4, <2>5, <2>7
           DEF Serve, ServeBundle, ServeUpload, ServeLogin, ServeRevoked, Lose, Unauthorized
<1>4. CASE OtherDevice
  BY <1>1, <1>2, <1>4, RevokedKeeps DEF OtherDevice, Discarded, Answered, TypeOK
<1> QED  BY <1>2, <1>3, <1>4

\* A restore ends without a public row only where there was no private key, or no more.
LEMMA LoadingStarts ==
    ASSUME TypeOK, [Next]_vars, NEW t \in Restorers, pc'[t] \in {"loading", "restored"}
    PROVE  \/ pc[t] \in {"loading", "restored"}
           \/ pc[t] = "clearing"
           \/ pc[t] = "provision" /\ identityKeyPublic' = reg[t]
           \/ /\ (t = "boot" /\ pc[t] \in {"verify", "signin"}) \/ deferred
              /\ UNCHANGED <<device, loggedOut>>
<1>1. t \in Tasks /\ t \notin Inits /\ t # "rec"
  BY NamesDistinct DEF Restorers
<1>2. CASE Calls \/ UNCHANGED vars
  BY <1>2 DEF Calls, Serve, Lose, Unauthorized, vars
<1>3. CASE \E c \in {"boot", "retry", "rec"}, next \in {"off", "init"} : \E tok :
             EnsureKeysInitialized(c, next, tok)
  <2>1. PICK c \in {"boot", "retry", "rec"}, next \in {"off", "init"} : \E tok :
          EnsureKeysInitialized(c, next, tok)
    BY <1>3
  <2>2. \/ pc' = [pc EXCEPT ![c] = next]
        \/ \E i \in Inits : pc' = [pc EXCEPT ![c] = next, ![i] = FirstStep]
    BY <2>1 DEF EnsureKeysInitialized
  <2> QED  BY <1>1, <2>2 DEF TypeOK
<1>4. CASE Initializing
  <2>1. PICK j \in Inits : Initialize(j) \/ InitEnds(j)
    BY <1>4 DEF Initializing
  <2>2. CASE InitEnds(j)
    BY <1>1, <2>2 DEF InitEnds
  <2>3. CASE Initialize(j)
    <3>1. \E s : pc' = [pc EXCEPT ![j] = s]
      BY <2>3 DEF Initialize, InitSaved, InitProvisioned, InitUploaded, InitRotates, InitMaintained,
                  InitGoesTo
    <3> QED  BY <1>1, <3>1 DEF TypeOK
  <2> QED  BY <2>1, <2>2, <2>3
<1>5. CASE Bootstrapping
  <2>1. CASE ColdStart \/ NotSignedIn
    BY <1>1, <2>1, NamesDistinct DEF ColdStart, NotSignedIn, TypeOK
  <2>2. CASE SignedIn
    BY <1>1, <2>2 DEF SignedIn, RestoreStarts, RestoreEnds, TypeOK, history
  <2>3. CASE Bootstrapped \/ RetryRestored
    BY <1>1, <1>3, <2>3, NamesDistinct DEF Bootstrapped, RetryRestored, TypeOK
  <2>4. CASE \E u \in Restorers : Restore(u)
    <3>1. PICK u \in Restorers : Restore(u)
      BY <2>4
    <3>2. u # t => pc'[t] = pc[t]
      BY <1>1, <3>1 DEF Restore, RestoreProbed, RestoreCleared, RestoreProvisioned, RestoreEnds,
                        RestoreDeferred, TypeOK
    <3>3. CASE u = t
      BY <1>1, <3>1, <3>3 DEF Restore, RestoreProbed, RestoreCleared, RestoreProvisioned, RestoreEnds,
                              RestoreDeferred, TypeOK
    <3> QED  BY <3>2, <3>3
  <2> QED  BY <1>5, <2>1, <2>2, <2>3, <2>4 DEF Bootstrapping
<1>6. CASE Recovering
  <2>1. (\E s, c : RecGoesTo(s, c)) \/ \E tok : EnsureKeysInitialized("rec", "init", tok)
    BY <1>6 DEF Recovering, Cancelled, CancelDone, Checked, Reset, WipeKeychain, WipeDatabase, LoggedIn,
                LoginFails, Rechecked, ResetAgain, Recovered, WipeOrLogin, RecFails
  <2>2. CASE \E s, c : RecGoesTo(s, c)
    BY <1>1, <2>2 DEF RecGoesTo, TypeOK
  <2> QED  BY <1>3, <2>1, <2>2
<1>7. CASE UserActs
  <2>1. CASE Recover
    <3>1. \E s : pc' = [pc EXCEPT !["rec"] = s]
      BY <2>1 DEF Recover, CancelDone, WipeOrLogin, RecGoesTo
    <3> QED  BY <1>1, <3>1 DEF TypeOK
  <2>2. CASE LoginUser
    BY <1>1, <2>2 DEF LoginUser, TypeOK
  <2>3. CASE RetryIdentityRestore
    BY <1>1, <2>3 DEF RetryIdentityRestore, RestoreStarts, RestoreEnds, TypeOK, history
  <2> QED  BY <1>7, <2>1, <2>2, <2>3 DEF UserActs
<1>8. CASE Environment
  BY <1>1, <1>8 DEF Environment, Restart, Relaunch, Reinstall, Launch, Logout, PushArrives, OtherDevice
<1> QED  BY <1>2, <1>4, <1>5, <1>6, <1>7, <1>8 DEF Next

LEMMA DiscardsStep ==
    ASSUME DeviceInv, Spared, [Next]_vars, Registered, Registered', NEW t \in Restorers
    PROVE  ~Discards(t)'
<1>1. TypeOK /\ t \in Tasks /\ ~Discards(t)
  BY NamesDistinct DEF DeviceInv, Spared
<1>2. pc'[t] # "clearing"
  BY <1>1, ClearingStarts DEF Discards
<1>3. ASSUME pc'[t] = "probe", Discarded(t)' PROVE FALSE
  <2>1. pc[t] = "probe" /\ reg'[t] = reg[t]
    BY <1>1, <1>3, ProbeStarts
  <2>2. keychain' = keychain
    <3>1. reg[t] = keychain /\ identityKeyPublic = NoKey
      BY <1>1, <2>1 DEF DeviceInv, Paired, Restoring
    <3>2. \A i \in Inits : pc[i] # "saving"
      BY <2>1 DEF DeviceInv, Exclusive, Settled, Settling, Late, Restorers
    <3>3. ~\E i \in Inits : InitSaved(i)
      BY <3>2 DEF InitSaved
    <3> QED  BY <3>3, KeychainChanges DEF Registered
  <2> QED  BY <1>3, <2>2, AnswerSpares
<1>4. ASSUME pc'[t] \in {"loading", "restored"}, Keyless' PROVE FALSE
  <2>1. CASE pc[t] \in {"loading", "restored"}
    <3>1. ~Keyless /\ pc["rec"] # "wipeDb"
      BY <1>1, <2>1 DEF Discards, DeviceInv, Exclusive, Alone, Restorers
    <3> QED  BY <1>4, <3>1, KeylessStarts
  <2>2. CASE pc[t] = "provision" /\ identityKeyPublic' = reg[t]
    BY <1>1, <1>4, <2>2 DEF Keyless, DeviceInv, Paired, Restoring
  <2>3. CASE UNCHANGED <<device, loggedOut>>
    <3>1. Keyless
      BY <1>4, <2>3 DEF Keyless, device
    <3>2. ~deferred /\ auth
      BY <3>1 DEF Spared, Forgotten, Keyless
    <3>3. ~(t = "boot" /\ pc[t] \in {"verify", "signin"})
      BY <3>2 DEF DeviceInv, Exclusive, Alone
    <3> QED  BY <1>1, <1>4, <2>1, <2>2, <3>2, <3>3, LoadingStarts DEF Discards
  <2> QED  BY <1>1, <1>4, <2>1, <2>2, <2>3, LoadingStarts DEF Discards
<1> QED  BY <1>2, <1>3, <1>4 DEF Discards

LEMMA EnsureSaves ==
    ASSUME TypeOK, NEW c \in {"boot", "retry", "rec"}, NEW next, NEW tok,
           EnsureKeysInitialized(c, next, tok), NEW i \in Inits, pc'[i] = "saving", pc[i] # "saving"
    PROVE  identityKeyPublic = NoKey /\ cachedPrivateKey = NoKey /\ pc'[c] = next
<1>1. c \in Tasks /\ i \in Tasks /\ c # i
  BY NamesDistinct
<1>2. initializationPromise = None
  BY <1>1 DEF EnsureKeysInitialized, TypeOK
<1>3. PICK j \in Inits : pc' = [pc EXCEPT ![c] = next, ![j] = FirstStep]
  BY <1>2 DEF EnsureKeysInitialized
<1>4. pc'[i] = FirstStep /\ pc'[c] = next
  BY <1>1, <1>3, NamesDistinct DEF TypeOK
<1> QED  BY <1>4 DEF FirstStep, Refuses

\* A key is generated for a restore that found none, or for a recovery.
LEMMA SavingBegins ==
    ASSUME TypeOK, [Next]_vars, NEW i \in Inits, pc'[i] = "saving", pc[i] # "saving"
    PROVE  /\ identityKeyPublic = NoKey /\ cachedPrivateKey = NoKey /\ loggedOut' = loggedOut
           /\ pc'["rec"] # "off" \/ pc["boot"] = "loading" \/ pc["retry"] = "restored"
<1>1. i \in Tasks /\ i \notin Restorers /\ i # "rec"
  BY NamesDistinct DEF Restorers
<1>2. ~Calls /\ ~UNCHANGED vars
  BY DEF Calls, Serve, Lose, Unauthorized, vars
<1>3. ~Initializing
  <2>1. ASSUME NEW j \in Inits, Initialize(j) PROVE FALSE
    <3>1. \E s \in PCs \ {"saving"} : pc' = [pc EXCEPT ![j] = s]
      BY <2>1 DEF Initialize, InitSaved, InitProvisioned, InitUploaded, InitRotates, InitMaintained,
                  InitGoesTo, OutcomeOf, PCs
    <3> QED  BY <1>1, <3>1 DEF TypeOK
  <2>2. ASSUME NEW j \in Inits, InitEnds(j) PROVE FALSE
    BY <1>1, <2>2 DEF InitEnds
  <2> QED  BY <2>1, <2>2 DEF Initializing
<1>4. CASE Bootstrapping
  <2>1. ~\E t \in Restorers : \E s : pc' = [pc EXCEPT ![t] = s]
    BY <1>1 DEF TypeOK
  <2>2. (Bootstrapped /\ pc["boot"] = "loading") \/ RetryRestored
    <3>1. ~ColdStart /\ ~NotSignedIn /\ ~(Bootstrapped /\ pc["boot"] # "loading")
      BY <1>2, <2>1 DEF ColdStart, NotSignedIn, Bootstrapped, Restorers
    <3>2. ~SignedIn
      BY <2>1 DEF SignedIn, RestoreStarts, RestoreEnds, Restorers
    <3>3. ASSUME NEW t \in Restorers, Restore(t) PROVE FALSE
      BY <2>1, <3>3 DEF Restore, RestoreProbed, RestoreCleared, RestoreProvisioned, RestoreEnds,
                        RestoreDeferred
    <3> QED  BY <1>4, <3>1, <3>2, <3>3 DEF Bootstrapping
  <2> QED  BY <2>2, EnsureSaves DEF Bootstrapped, RetryRestored, history
<1>5. CASE Recovering
  <2>1. ~\E s, c : RecGoesTo(s, c)
    BY <1>1 DEF RecGoesTo, TypeOK
  <2>2. \E tok : EnsureKeysInitialized("rec", "init", tok)
    BY <1>5, <2>1
    DEF Recovering, Cancelled, CancelDone, Checked, Reset, WipeKeychain, WipeDatabase, LoggedIn,
        LoginFails, Rechecked, ResetAgain, Recovered, WipeOrLogin, RecFails
  <2>3. loggedOut' = loggedOut
    BY <1>5 DEF Recovering, Cancelled, Checked, Reset, WipeKeychain, WipeDatabase, LoggedIn,
                LoginFails, Rechecked, ResetAgain, Recovered, history
  <2> QED  BY <2>2, <2>3, EnsureSaves
<1>6. ~UserActs
  <2>1. \A t \in Restorers \cup {"rec"} : \A s : pc' # [pc EXCEPT ![t] = s]
    BY <1>1 DEF TypeOK
  <2> QED  BY <2>1 DEF UserActs, LoginUser, RetryIdentityRestore, RestoreStarts, RestoreEnds, Recover,
                       CancelDone, WipeOrLogin, RecGoesTo, Restorers
<1>7. ~Environment
  BY <1>1 DEF Environment, Restart, Relaunch, Reinstall, Launch, Logout, PushArrives, OtherDevice
<1> QED  BY <1>2, <1>3, <1>4, <1>5, <1>6, <1>7 DEF Next

\* A recovery that awaits an initialization goes on awaiting it.
LEMMA RecWaits ==
    ASSUME DeviceInv, [Next]_vars, pc["rec"] \in {"cancel", "init"}, ~Launch
    PROVE  pc'["rec"] # "off"
<1>1. TypeOK /\ "rec" \in Tasks /\ "rec" \notin Inits /\ "rec" \notin Restorers
  BY NamesDistinct DEF DeviceInv, Restorers
<1>2. CASE Calls \/ UNCHANGED vars
  BY <1>2 DEF Calls, Serve, Lose, Unauthorized, vars
<1>3. CASE Initializing
  <2>1. PICK j \in Inits : Initialize(j) \/ InitEnds(j)
    BY <1>3 DEF Initializing
  <2>2. CASE InitEnds(j)
    BY <1>1, <2>2 DEF InitEnds
  <2>3. CASE Initialize(j)
    <3>1. \E s : pc' = [pc EXCEPT ![j] = s]
      BY <2>3 DEF Initialize, InitSaved, InitProvisioned, InitUploaded, InitRotates, InitMaintained,
                  InitGoesTo
    <3> QED  BY <1>1, <3>1 DEF TypeOK
  <2> QED  BY <2>1, <2>2, <2>3
<1>4. CASE Bootstrapping
  BY <1>1, <1>4, BesideRecovery DEF DeviceInv
<1>5. ~Recovering
  BY DEF Recovering, Cancelled, Checked, Reset, WipeKeychain, WipeDatabase, LoggedIn, LoginFails,
         Rechecked, ResetAgain, Recovered
<1>6. CASE UserActs
  BY <1>1, <1>6 DEF UserActs, LoginUser, RetryIdentityRestore, Recover, TypeOK
<1>7. CASE Environment
  BY <1>7 DEF Environment, Restart, Relaunch, Reinstall, Logout, PushArrives, OtherDevice
<1> QED  BY <1>2, <1>3, <1>4, <1>5, <1>6, <1>7 DEF Next

LEMMA OverwritesStep ==
    ASSUME DeviceInv, Spared, [Next]_vars, NEW i \in Inits
    PROVE  ~Overwrites(i)'
<1> SUFFICES ASSUME Overwrites(i)' PROVE FALSE
  OBVIOUS
<1>1. TypeOK /\ ~Launch
  BY NamesDistinct DEF DeviceInv, Launch, Overwrites
<1>2. CASE pc[i] = "saving"
  <2>1. ~loggedOut
    BY <1>1, LoggedOutStays DEF Overwrites
  <2>2. pc["rec"] # "off"
    BY <1>2, <2>1 DEF Spared, Overwrites
  <2>3. pc["rec"] \in {"cancel", "init"}
    BY <1>2, <2>2 DEF DeviceInv, Exclusive, Steps, Settled, Quiet
  <2> QED  BY <1>1, <2>3, RecWaits DEF Overwrites
<1>3. CASE pc[i] # "saving"
  <2>1. /\ identityKeyPublic = NoKey /\ cachedPrivateKey = NoKey /\ ~loggedOut
        /\ pc["boot"] = "loading" \/ pc["retry"] = "restored"
    BY <1>1, <1>3, SavingBegins DEF Overwrites
  <2> QED  BY <2>1 DEF Spared, Discards, Keyless, Restorers
<1> QED  BY <1>2, <1>3

LEMMA KeySafeStep ==
    ASSUME DeviceInv, Sessions, KeySafe, [Next]_vars, ~Overlaps
    PROVE  KeySafe'
<1> SUFFICES ASSUME Registered' PROVE Spared'
  BY DEF KeySafe
<1>1. CASE ~Registered
  BY <1>1, RegisteredBecomes, UploadsSpared
<1>2. CASE Registered
  <2>1. Spared /\ serverKey' # NoKey
    BY <1>2 DEF KeySafe, Registered
  <2>2. token' # "dead"
    BY <2>1, DeadTokenHasNoKey DEF Spared
  <2>3. \A t \in Tasks : ~Doomed(t)'
    BY <2>1, <2>2, DoomStarts DEF Spared
  <2>4. \A i \in Inits : ~Overwrites(i)'
    BY <2>1, OverwritesStep
  <2>5. \A t \in Restorers : ~Discards(t)'
    BY <1>2, <2>1, DiscardsStep
  <2>6. ~Forgotten' /\ (deferred' => ~Keyless')
    BY <2>1, ForgottenStep, DeferredKeepsKey
  <2> QED  BY <2>2, <2>3, <2>4, <2>5, <2>6 DEF Spared
<1> QED  BY <1>1, <1>2

LEMMA KeyKeptStep ==
    ASSUME DeviceInv, KeySafe, [Next]_vars, Registered, keychain' # keychain
    PROVE  pc["rec"] # "off" \/ loggedOut
<1>1. Spared
  BY DEF KeySafe
<1>2. CASE \E i \in Inits : InitSaved(i)
  BY <1>1, <1>2 DEF InitSaved, Spared, Overwrites
<1>3. CASE \E t \in Restorers : pc[t] = "clearing"
  BY <1>1, <1>3 DEF Spared, Discards
<1> QED  BY <1>2, <1>3, KeychainChanges

\* The private half of the registered identity key is replaced or removed only by a recovery,
\* or in a launch that has logged out: a restore that is deferred, retried or refused never
\* loses it, unless some recovery or login of the behaviour overlaps one.
THEOREM LostKeyHasCause == Spec => KeyKept \/ <><<Overlaps>>_vars
<1>1. Init => Sessions /\ KeySafe
  BY SessionsInit, KeySafeInit
<1>2. DeviceInv /\ Sessions /\ KeySafe /\ [Next]_vars /\ [~Overlaps]_vars => Sessions' /\ KeySafe'
  BY SessionsStep, KeySafeStep, StutterAlone
<1>3. DeviceInv /\ KeySafe /\ [Next]_vars
        => [Registered /\ keychain' # keychain => pc["rec"] # "off" \/ loggedOut]_vars
  BY KeyKeptStep
<1>4. Spec /\ [][~Overlaps]_vars => []DeviceInv
  BY DeviceInvLasts
<1> QED  BY <1>1, <1>2, <1>3, <1>4, PTL DEF Spec, KeyKept
-----------------------------------------------------------------------------
(* No task waits for ever: the half of Recovers that needs no fairness.     *)

\* How far a step is from the end of its task, a recovery's being the longest.
Rank ==
    [s \in PCs |->
        CASE s = "off" -> 0
          [] s \in {"done", "failed", "conflicted"} -> 1
          [] s \in {"init", "replenish"} -> 2
          [] s \in {"maintain", "loading", "deferred", "restored"} -> 3
          [] s \in {"upload", "loginAgain"} -> 4
          [] s \in {"provision", "clearing", "resetAgain"} -> 5
          [] s \in {"saving", "probe", "recheck"} -> 6
          [] s \in {"verify", "signin", "login"} -> 7
          [] s \in {"cold", "wipeDb"} -> 8
          [] s = "wipe" -> 9
          [] s = "reset" -> 10
          [] s = "check" -> 11
          [] s = "cancelled" -> 12
          [] s = "cancel" -> 13]

\* A login that was refused once is nearer to its end.
Left(t) == 2 * Rank[pc[t]] + (IF t = "rec" /\ ~recovery.again THEN 1 ELSE 0)

\* The steps of each task that run once what it awaits has answered.
Turn(t) ==
    \/ t = "boot" /\ (ColdStart \/ SignedIn \/ NotSignedIn \/ Bootstrapped \/ Restore("boot"))
    \/ t = "retry" /\ (RetryRestored \/ Restore("retry"))
    \/ t = "rec" /\ Recovering
    \/ t \in Inits /\ (Initialize(t) \/ InitEnds(t))

\* Every turn of a task brings it nearer to its end, and nothing but a new launch
\* sends a running one back: a recovery takes at most two logins, two probes and two
\* resets, however answers, conflicts, logouts and other devices interfere.
TasksRunDown ==
    [][\A t \in Tasks :
         /\ Turn(t) => Left(t)' < Left(t)
         /\ pc[t] # "off" /\ ~Launch => Left(t)' <= Left(t)]_vars

\* A recovery or a retry that awaits an initialization is counted among those who
\* await one that still runs, and among them only: whoever shares, cancels or
\* replaces initializations, nobody waits for one that has settled.
Awaits(c) == pc[c] = "init" \/ pc[c] = "cancel"
AwaitedRuns ==
    \A c \in {"retry", "rec"} : Awaits(c) => \E i \in Inits : c \in joined[i] /\ pc[i] # "off"
\* The rank of every step.
LEMMA Ranks ==
    /\ \A s \in PCs : Rank[s] \in Nat
    /\ Rank["off"] = 0
    /\ \A s \in {"done", "failed", "conflicted"} : Rank[s] = 1
    /\ \A s \in {"init", "replenish"} : Rank[s] = 2
    /\ \A s \in {"maintain", "loading", "deferred", "restored"} : Rank[s] = 3
    /\ \A s \in {"upload", "loginAgain"} : Rank[s] = 4
    /\ \A s \in {"provision", "clearing", "resetAgain"} : Rank[s] = 5
    /\ \A s \in {"saving", "probe", "recheck"} : Rank[s] = 6
    /\ \A s \in {"verify", "signin", "login"} : Rank[s] = 7
    /\ \A s \in {"cold", "wipeDb"} : Rank[s] = 8
    /\ Rank["wipe"] = 9 /\ Rank["reset"] = 10 /\ Rank["check"] = 11
    /\ Rank["cancelled"] = 12 /\ Rank["cancel"] = 13
<1>1. \A s \in PCs : Rank[s] =
        CASE s = "off" -> 0
          [] s \in {"done", "failed", "conflicted"} -> 1
          [] s \in {"init", "replenish"} -> 2
          [] s \in {"maintain", "loading", "deferred", "restored"} -> 3
          [] s \in {"upload", "loginAgain"} -> 4
          [] s \in {"provision", "clearing", "resetAgain"} -> 5
          [] s \in {"saving", "probe", "recheck"} -> 6
          [] s \in {"verify", "signin", "login"} -> 7
          [] s \in {"cold", "wipeDb"} -> 8
          [] s = "wipe" -> 9
          [] s = "reset" -> 10
          [] s = "check" -> 11
          [] s = "cancelled" -> 12
          [] s = "cancel" -> 13
  BY DEF Rank
<1>2. Rank["off"] = 0 /\ \A s \in {"done", "failed", "conflicted"} : Rank[s] = 1
  BY <1>1 DEF PCs
<1>3. /\ \A s \in {"init", "replenish"} : Rank[s] = 2
      /\ \A s \in {"maintain", "loading", "deferred", "restored"} : Rank[s] = 3
      /\ \A s \in {"upload", "loginAgain"} : Rank[s] = 4
  BY <1>1 DEF PCs
<1>4. /\ \A s \in {"provision", "clearing", "resetAgain"} : Rank[s] = 5
      /\ \A s \in {"saving", "probe", "recheck"} : Rank[s] = 6
      /\ \A s \in {"verify", "signin", "login"} : Rank[s] = 7
  BY <1>1 DEF PCs
<1>5. /\ \A s \in {"cold", "wipeDb"} : Rank[s] = 8
      /\ Rank["wipe"] = 9 /\ Rank["reset"] = 10 /\ Rank["check"] = 11
      /\ Rank["cancelled"] = 12 /\ Rank["cancel"] = 13
  BY <1>1 DEF PCs
<1> QED  BY <1>2, <1>3, <1>4, <1>5 DEF PCs

\* Who awaits an initialization goes on to `next`; every other running task stays.
LEMMA EnsureMoves ==
    ASSUME TypeOK, NEW c \in {"boot", "retry", "rec"}, NEW next, NEW tok,
           EnsureKeysInitialized(c, next, tok)
    PROVE  /\ pc'[c] = next
           /\ \A t \in Tasks \ {c} : pc[t] # "off" => pc'[t] = pc[t]
<1>1. c \in Tasks /\ c \notin Inits
  BY NamesDistinct
<1>2. CASE pc' = [pc EXCEPT ![c] = next]
  BY <1>1, <1>2 DEF TypeOK
<1>3. ASSUME NEW i \in Inits, pc[i] = "off", pc' = [pc EXCEPT ![c] = next, ![i] = FirstStep]
      PROVE  /\ pc'[c] = next
             /\ \A t \in Tasks \ {c} : pc[t] # "off" => pc'[t] = pc[t]
  BY <1>1, <1>3 DEF TypeOK
<1> QED  BY <1>2, <1>3 DEF EnsureKeysInitialized

\* A lower rank is a shorter way, for a recovery whether or not a login was refused.
LEMMA LowerRank ==
    ASSUME TypeOK, TypeOK', NEW t \in Tasks, Rank[pc'[t]] < Rank[pc[t]]
    PROVE  Left(t)' < Left(t)
<1>1. Rank[pc'[t]] \in Nat /\ Rank[pc[t]] \in Nat
  BY Ranks DEF TypeOK
<1> DEFINE a == IF t = "rec" /\ ~recovery.again THEN 1 ELSE 0
<1> DEFINE b == IF t = "rec" /\ ~recovery'.again THEN 1 ELSE 0
<1>2. a \in {0, 1} /\ b \in {0, 1}
  OBVIOUS
<1>3. Left(t) = 2 * Rank[pc[t]] + a
  BY DEF Left
<1>4. Left(t)' = 2 * Rank[pc'[t]] + b
  BY DEF Left
<1> HIDE DEF a, b
<1> QED  BY <1>1, <1>2, <1>3, <1>4

\* A restore ends, or goes from its probe to what it found.
LEMMA RestoreNears ==
    ASSUME TypeOK, NEW t \in Restorers, Restore(t)
    PROVE  Rank[pc'[t]] < Rank[pc[t]]
<1>1. t \in Tasks
  BY DEF Tasks
<1>2. ASSUME NEW s \in {"loading", "restored", "deferred", "off", "provision", "clearing"},
             pc' = [pc EXCEPT ![t] = s]
      PROVE  pc'[t] = s
  BY <1>1, <1>2 DEF TypeOK
<1>3. pc[t] = "probe" \/ pc[t] \in {"clearing", "provision"}
  BY DEF Restore, RestoreProbed, RestoreCleared, RestoreProvisioned
<1>4. pc[t] = "probe" => pc'[t] \in {"loading", "restored", "deferred", "off", "provision", "clearing"}
  BY <1>2 DEF Restore, RestoreProbed, RestoreCleared, RestoreProvisioned, RestoreDeferred
<1>5. pc[t] # "probe" => pc'[t] \in {"loading", "restored", "deferred", "off"}
  BY <1>2 DEF Restore, RestoreProbed, RestoreCleared, RestoreProvisioned, RestoreDeferred, RestoreEnds
<1> QED  BY <1>3, <1>4, <1>5, Ranks

\* So does a bootstrap.
LEMMA BootNears ==
    ASSUME TypeOK, ColdStart \/ SignedIn \/ NotSignedIn \/ Bootstrapped
    PROVE  Rank[pc'["boot"]] < Rank[pc["boot"]]
<1>1. "boot" \in Tasks
  BY NamesDistinct
<1>2. ASSUME NEW s, pc' = [pc EXCEPT !["boot"] = s] PROVE pc'["boot"] = s
  BY <1>1, <1>2 DEF TypeOK
<1>3. CASE ColdStart
  <2>1. pc["boot"] = "cold" /\ pc'["boot"] \in {"off", "verify"}
    BY <1>2, <1>3 DEF ColdStart
  <2> QED  BY <2>1, Ranks
<1>4. CASE SignedIn
  <2>1. pc["boot"] \in {"verify", "signin"} /\ RestoreStarts("boot", token')
    BY <1>4 DEF SignedIn
  <2>2. pc'["boot"] \in {"loading", "probe"}
    BY <1>2, <2>1 DEF RestoreStarts, RestoreEnds
  <2> QED  BY <2>1, <2>2, Ranks
<1>5. CASE NotSignedIn
  <2>1. pc["boot"] \in {"verify", "signin"} /\ pc'["boot"] = "off"
    BY <1>2, <1>5 DEF NotSignedIn
  <2> QED  BY <2>1, Ranks
<1>6. CASE Bootstrapped
  <2>1. pc["boot"] \in {"loading", "deferred"} /\ pc'["boot"] = "off"
    BY <1>2, <1>6, EnsureMoves DEF Bootstrapped
  <2> QED  BY <2>1, Ranks
<1> QED  BY <1>3, <1>4, <1>5, <1>6
\* An initialization goes on to its next await, or settles.
LEMMA InitNears ==
    ASSUME TypeOK, NEW i \in Inits, Initialize(i) \/ InitEnds(i)
    PROVE  Rank[pc'[i]] < Rank[pc[i]]
<1>1. i \in Tasks
  BY DEF Tasks
<1>2. ASSUME NEW s, NEW k, NEW c, InitGoesTo(i, s, k, c) PROVE pc'[i] = s
  BY <1>1, <1>2 DEF InitGoesTo, TypeOK
<1>3. CASE InitSaved(i)
  <2>1. pc[i] = "saving" /\ pc'[i] \in {"provision", "failed"}
    BY <1>2, <1>3 DEF InitSaved
  <2> QED  BY <2>1, Ranks
<1>4. CASE InitProvisioned(i)
  <2>1. pc[i] = "provision" /\ pc'[i] \in {"maintain", "upload", "failed"}
    BY <1>2, <1>4 DEF InitProvisioned
  <2> QED  BY <2>1, Ranks
<1>5. CASE InitUploaded(i)
  <2>1. pc[i] = "upload" /\ pc'[i] \in {"maintain", "conflicted", "failed"}
    BY <1>2, <1>5 DEF InitUploaded, OutcomeOf
  <2> QED  BY <2>1, Ranks
<1>6. CASE InitRotates(i)
  <2>1. pc[i] = "maintain" /\ pc'[i] = "replenish"
    BY <1>2, <1>6 DEF InitRotates
  <2> QED  BY <2>1, Ranks
<1>7. CASE InitMaintained(i)
  <2>1. pc[i] \in {"maintain", "replenish"} /\ pc'[i] \in {"done", "conflicted", "failed"}
    BY <1>2, <1>7 DEF InitMaintained, OutcomeOf
  <2> QED  BY <2>1, Ranks
<1>8. CASE InitEnds(i)
  <2>1. pc[i] \in {"done", "failed", "conflicted"} /\ pc'[i] = "off"
    BY <1>1, <1>8 DEF InitEnds
  <2> QED  BY <2>1, Ranks
<1> QED  BY <1>3, <1>4, <1>5, <1>6, <1>7, <1>8 DEF Initialize

\* A recovery goes on to its next step, logs in a second time, or ends.
LEMMA RecoveringNears ==
    ASSUME TypeOK, TypeOK', Recovering
    PROVE  Left("rec")' < Left("rec")
<1>1. "rec" \in Tasks
  BY NamesDistinct
<1>2. ASSUME NEW s, NEW c, RecGoesTo(s, c) PROVE pc'["rec"] = s
  BY <1>1, <1>2 DEF RecGoesTo, TypeOK
<1>3. ASSUME NEW wiped, WipeOrLogin(wiped) PROVE pc'["rec"] \in {"login", "wipe"}
  BY <1>2, <1>3 DEF WipeOrLogin
<1>4. ASSUME NEW tok, EnsureKeysInitialized("rec", "init", tok) PROVE pc'["rec"] = "init"
  BY <1>4, EnsureMoves
<1>5. ASSUME RecFails PROVE pc'["rec"] = "off"
  BY <1>2, <1>5 DEF RecFails
<1>6. CASE Cancelled
  <2>1. pc["rec"] = "cancelled" /\ pc'["rec"] \in {"check", "login", "wipe"}
    BY <1>2, <1>3, <1>6 DEF Cancelled, CancelDone
  <2> QED  BY <1>1, <2>1, Ranks, LowerRank
<1>7. CASE Checked
  <2>1. pc["rec"] = "check" /\ pc'["rec"] \in {"reset", "login", "wipe", "off"}
    BY <1>2, <1>3, <1>5, <1>7 DEF Checked
  <2> QED  BY <1>1, <2>1, Ranks, LowerRank
<1>8. CASE Reset
  <2>1. pc["rec"] = "reset" /\ pc'["rec"] \in {"login", "wipe", "off"}
    BY <1>2, <1>3, <1>5, <1>8 DEF Reset
  <2> QED  BY <1>1, <2>1, Ranks, LowerRank
<1>9. CASE WipeKeychain
  <2>1. pc["rec"] = "wipe" /\ pc'["rec"] = "wipeDb"
    BY <1>2, <1>9 DEF WipeKeychain
  <2> QED  BY <1>1, <2>1, Ranks, LowerRank
<1>10. CASE WipeDatabase
  <2>1. pc["rec"] = "wipeDb" /\ pc'["rec"] \in {"login", "off"}
    BY <1>2, <1>5, <1>10 DEF WipeDatabase
  <2> QED  BY <1>1, <2>1, Ranks, LowerRank
<1>11. CASE LoggedIn
  <2>1. \/ pc["rec"] = "login" /\ pc'["rec"] \in {"recheck", "init"}
        \/ pc["rec"] = "loginAgain" /\ pc'["rec"] = "init"
    BY <1>2, <1>4, <1>11 DEF LoggedIn
  <2> QED  BY <1>1, <2>1, Ranks, LowerRank
<1>12. CASE LoginFails
  <2>1. pc["rec"] \in {"login", "loginAgain"}
    BY <1>12 DEF LoginFails
  <2>2. CASE RecFails
    BY <1>1, <1>5, <2>1, <2>2, Ranks, LowerRank
  <2>3. CASE /\ ~recovery.again /\ pc'["rec"] = pc["rec"]
             /\ recovery' = [recovery EXCEPT !.again = TRUE]
    <3>1. recovery'.again = TRUE
      BY <2>3 DEF TypeOK
    <3>2. Left("rec") = 2 * Rank[pc["rec"]] + 1 /\ Left("rec")' = 2 * Rank[pc["rec"]]
      BY <2>1, <2>3, <3>1, Ranks DEF Left
    <3> QED  BY <2>1, <3>2, Ranks
  <2> QED  BY <1>2, <1>12, <2>2, <2>3 DEF LoginFails
<1>13. CASE Rechecked
  <2>1. pc["rec"] = "recheck" /\ pc'["rec"] \in {"resetAgain", "init"}
    BY <1>2, <1>4, <1>13 DEF Rechecked
  <2> QED  BY <1>1, <2>1, Ranks, LowerRank
<1>14. CASE ResetAgain
  <2>1. pc["rec"] = "resetAgain" /\ pc'["rec"] \in {"loginAgain", "init"}
    BY <1>2, <1>4, <1>14 DEF ResetAgain
  <2> QED  BY <1>1, <2>1, Ranks, LowerRank
<1>15. CASE Recovered
  <2>1. pc["rec"] \in {"done", "failed", "conflicted"} /\ pc'["rec"] = "off"
    BY <1>2, <1>15 DEF Recovered
  <2> QED  BY <1>1, <2>1, Ranks, LowerRank
<1> QED
  BY <1>6, <1>7, <1>8, <1>9, <1>10, <1>11, <1>12, <1>13, <1>14, <1>15 DEF Recovering

\* Every turn of a task brings it nearer to its end.
LEMMA TurnNears ==
    ASSUME TypeOK, TypeOK', NEW t \in Tasks, Turn(t)
    PROVE  Left(t)' < Left(t)
<1>1. CASE t = "rec" /\ Recovering
  BY <1>1, RecoveringNears
<1>2. CASE t \in Inits /\ (Initialize(t) \/ InitEnds(t))
  BY <1>2, InitNears, LowerRank
<1>3. CASE t = "boot" /\ (ColdStart \/ SignedIn \/ NotSignedIn \/ Bootstrapped)
  BY <1>3, BootNears, LowerRank
<1>4. CASE t \in Restorers /\ Restore(t)
  BY <1>4, RestoreNears, LowerRank
<1>5. CASE t = "retry" /\ RetryRestored
  <2>1. pc["retry"] = "restored" /\ pc'["retry"] = "init"
    BY <1>5, EnsureMoves DEF RetryRestored
  <2> QED  BY <1>5, <2>1, Ranks, LowerRank
<1> QED  BY <1>1, <1>2, <1>3, <1>4, <1>5 DEF Turn, Restorers
\* The way left is a number.
LEMMA LeftType ==
    ASSUME TypeOK, TypeOK', NEW t \in Tasks
    PROVE  Left(t) \in Nat /\ Left(t)' \in Nat
<1>1. Rank[pc'[t]] \in Nat /\ Rank[pc[t]] \in Nat
  BY Ranks DEF TypeOK
<1>2. /\ 2 * Rank[pc[t]] + 1 \in Nat /\ 2 * Rank[pc[t]] + 0 \in Nat
      /\ 2 * Rank[pc'[t]] + 1 \in Nat /\ 2 * Rank[pc'[t]] + 0 \in Nat
  BY <1>1
<1> QED  BY <1>2 DEF Left

\* A task that stays where it is, or is sent on by what it awaited, is not sent back.
LEMMA NotSentBack ==
    ASSUME TypeOK, TypeOK', NEW t \in Tasks, t = "rec" => recovery'.again = recovery.again,
           pc'[t] = pc[t] \/ Rank[pc'[t]] < Rank[pc[t]]
    PROVE  Left(t)' <= Left(t)
<1>1. Left(t) \in Nat /\ Left(t)' \in Nat
  BY LeftType
<1>2. CASE pc'[t] = pc[t]
  <2>1. Left(t)' = Left(t)
    BY <1>2 DEF Left
  <2> QED  BY <1>1, <2>1
<1>3. CASE Rank[pc'[t]] < Rank[pc[t]]
  BY <1>1, <1>3, LowerRank
<1> QED  BY <1>2, <1>3

\* What a step that is not its own turn does to a running task.
LEMMA OthersStay ==
    ASSUME TypeOK, [Next]_vars, ~Launch, NEW t \in Tasks, pc[t] # "off", ~Turn(t)
    PROVE  /\ t = "rec" => recovery'.again = recovery.again
           /\ \/ pc'[t] = pc[t]
              \/ \E i \in Inits : /\ InitEnds(i) /\ t \in joined[i] \cap {"retry", "rec"}
                                  /\ pc'[t] = IF t = "retry" THEN "off"
                                              ELSE IF pc[t] = "cancel" THEN "cancelled" ELSE pc[i]
<1> USE NamesDistinct
<1>1. CASE UNCHANGED <<pc, recovery>>
  BY <1>1
<1>2. CASE Calls
  BY <1>2, <1>1 DEF Calls, Serve, Lose, Unauthorized
<1>a. ASSUME NEW u \in Tasks, u # t, NEW s, pc' = [pc EXCEPT ![u] = s] PROVE pc'[t] = pc[t]
  BY <1>a DEF TypeOK
<1>3. ASSUME NEW i \in Inits, Initialize(i)
      PROVE  pc'[t] = pc[t] /\ recovery' = recovery
  <2>1. t # i
    BY <1>3 DEF Turn
  <2>2. \E s, k, c : InitGoesTo(i, s, k, c)
    BY <1>3 DEF Initialize, InitSaved, InitProvisioned, InitUploaded, InitRotates, InitMaintained
  <2>3. i \in Tasks /\ recovery' = recovery
    BY <1>3 DEF Tasks, Initialize
  <2> QED  BY <2>1, <2>2, <2>3, <1>a DEF InitGoesTo
<1>4. ASSUME NEW i \in Inits, InitEnds(i)
      PROVE  /\ recovery' = recovery
             /\ \/ pc'[t] = pc[t]
                \/ /\ t \in joined[i] \cap {"retry", "rec"}
                   /\ pc'[t] = IF t = "retry" THEN "off"
                               ELSE IF pc[t] = "cancel" THEN "cancelled" ELSE pc[i]
  <2>1. t # i /\ t \in Tasks /\ recovery' = recovery
    BY <1>4 DEF Turn, InitEnds
  <2>2. pc'[t] = IF t = i \/ (t = "retry" /\ t \in joined[i]) THEN "off"
                 ELSE IF t # "rec" \/ t \notin joined[i] THEN pc[t]
                 ELSE IF pc[t] = "cancel" THEN "cancelled" ELSE pc[i]
    BY <1>4 DEF InitEnds
  <2> QED  BY <2>1, <2>2
<1>5. CASE Bootstrapping
  <2>1. recovery' = recovery
    BY <1>5 DEF Bootstrapping, ColdStart, SignedIn, NotSignedIn, Bootstrapped, RetryRestored, Restore
  <2>2. CASE ColdStart \/ SignedIn \/ NotSignedIn
    <3>1. t # "boot" /\ "boot" \in Tasks
      BY <2>2 DEF Turn
    <3>2. \E s : pc' = [pc EXCEPT !["boot"] = s]
      BY <2>2 DEF ColdStart, SignedIn, NotSignedIn, RestoreStarts, RestoreEnds
    <3> QED  BY <2>1, <3>1, <3>2, <1>a
  <2>3. CASE Bootstrapped
    <3>1. t # "boot" /\ "boot" \in Tasks
      BY <2>3 DEF Turn
    <3> QED  BY <2>1, <2>3, <3>1, <1>a, EnsureMoves DEF Bootstrapped
  <2>4. CASE RetryRestored
    <3>1. t # "retry"
      BY <2>4 DEF Turn
    <3> QED  BY <2>1, <2>4, <3>1, EnsureMoves DEF RetryRestored
  <2>5. ASSUME NEW u \in Restorers, Restore(u) PROVE pc'[t] = pc[t]
    <3>1. t # u /\ u \in Tasks
      BY <2>5 DEF Turn, Restorers, Tasks
    <3>2. \E s : pc' = [pc EXCEPT ![u] = s]
      BY <2>5 DEF Restore, RestoreProbed, RestoreCleared, RestoreProvisioned, RestoreDeferred, RestoreEnds
    <3> QED  BY <3>1, <3>2, <1>a
  <2> QED  BY <1>5, <2>1, <2>2, <2>3, <2>4, <2>5 DEF Bootstrapping
<1>6. CASE Recovering
  <2>1. t # "rec" /\ "rec" \in Tasks
    BY <1>6 DEF Turn
  <2>2. ASSUME NEW s, NEW c, RecGoesTo(s, c) PROVE pc'[t] = pc[t]
    BY <2>1, <2>2, <1>a DEF RecGoesTo
  <2>3. ASSUME NEW tok, EnsureKeysInitialized("rec", "init", tok) PROVE pc'[t] = pc[t]
    BY <2>1, <2>3, EnsureMoves
  <2>4. (\E s, c : RecGoesTo(s, c)) \/ (\E tok : EnsureKeysInitialized("rec", "init", tok))
    BY <1>6 DEF Recovering, Cancelled, CancelDone, WipeOrLogin, Checked, Reset, RecFails,
                WipeKeychain, WipeDatabase, LoggedIn, LoginFails, Rechecked, ResetAgain, Recovered
  <2> QED  BY <2>1, <2>2, <2>3, <2>4
<1>7. CASE UserActs
  <2>1. CASE LoginUser
    <3>1. t # "boot" /\ "boot" \in Tasks /\ recovery' = recovery
      BY <2>1 DEF LoginUser
    <3> QED  BY <2>1, <3>1, <1>a DEF LoginUser
  <2>2. CASE RetryIdentityRestore
    <3>1. t # "retry" /\ "retry" \in Tasks /\ recovery' = recovery
      BY <2>2 DEF RetryIdentityRestore
    <3>2. \E s : pc' = [pc EXCEPT !["retry"] = s]
      BY <2>2 DEF RetryIdentityRestore, RestoreStarts, RestoreEnds
    <3> QED  BY <3>1, <3>2, <1>a
  <2>3. CASE Recover
    <3>1. t # "rec" /\ "rec" \in Tasks
      BY <2>3 DEF Recover
    <3>2. \E s : pc' = [pc EXCEPT !["rec"] = s]
      BY <2>3 DEF Recover, CancelDone, WipeOrLogin, RecGoesTo
    <3> QED  BY <3>1, <3>2, <1>a
  <2> QED  BY <1>7, <2>1, <2>2, <2>3 DEF UserActs
<1>8. CASE Environment
  <2>1. CASE Restart \/ Relaunch \/ Reinstall
    BY <2>1 DEF Restart, Relaunch, Reinstall
  <2>2. CASE Logout \/ PushArrives
    BY <2>2, <1>1 DEF Logout, PushArrives
  <2>3. CASE OtherDevice
    <3>1. pc' = pc /\ recovery' = [recovery EXCEPT !.cut = TRUE]
      BY <2>3 DEF OtherDevice
    <3>2. recovery'.again = recovery.again
      BY <3>1 DEF TypeOK
    <3> QED  BY <3>1, <3>2
  <2> QED  BY <1>8, <2>1, <2>2, <2>3 DEF Environment
<1>9. CASE UNCHANGED vars
  BY <1>9, <1>1 DEF vars
<1> QED
  BY <1>2, <1>3, <1>4, <1>5, <1>6, <1>7, <1>8, <1>9 DEF Next, Initializing
\* The invariant: who is counted as awaiting an initialization awaits it, and it runs.
Awaited ==
    /\ initializationPromise # None => pc[initializationPromise] # "off"
    /\ \A i \in Inits : joined[i] # {} => pc[i] # "off"
    /\ \A c \in {"retry", "rec"} :
         /\ Awaits(c) => \E i \in Inits : c \in joined[i]
         /\ \A i \in Inits : c \in joined[i] => Awaits(c)
         /\ \A i, j \in Inits : c \in joined[i] /\ c \in joined[j] => i = j

LEMMA AwaitedInit == Init => Awaited
BY NamesDistinct DEF Init, Awaited, Awaits

LEMMA AwaitedLaunch == Launch => Awaited'
BY NamesDistinct DEF Launch, Awaited, Awaits, Tasks

\* A step that neither starts, joins nor ends an initialization.
LEMMA AwaitedKept ==
    ASSUME TypeOK, Awaited, UNCHANGED inits,
           \A i \in Inits : pc[i] # "off" => pc'[i] # "off",
           \A c \in {"retry", "rec"} : Awaits(c)' = Awaits(c)
    PROVE  Awaited'
BY DEF Awaited, inits, TypeOK

\* A task starts an initialization or joins the one there is.
LEMMA AwaitedEnsure ==
    ASSUME TypeOK, Awaited, NEW c \in {"boot", "retry", "rec"}, NEW next, NEW tok,
           EnsureKeysInitialized(c, next, tok), ~Awaits(c),
           c # "boot" => next = "init"
    PROVE  Awaited'
<1>1. c \in Tasks /\ "retry" \in Tasks /\ "rec" \in Tasks
  BY NamesDistinct
<1>2. /\ \A i \in Inits : c # "boot" => c \notin joined[i]
      /\ c # "boot" => Awaits(c)'
  BY EnsureMoves DEF Awaited, Awaits
<1>3. CASE initializationPromise # None
  <2>1. /\ joined' = [joined EXCEPT ![initializationPromise] = @ \cup {c}]
        /\ pc' = [pc EXCEPT ![c] = next] /\ UNCHANGED initializationPromise
    BY <1>3 DEF EnsureKeysInitialized
  <2>2. initializationPromise \in Inits /\ pc[initializationPromise] # "off"
    BY <1>3 DEF Awaited, TypeOK
  <2>3. \A t \in Tasks : t # c => pc'[t] = pc[t]
    BY <1>1, <2>1 DEF TypeOK
  <2>4. \A i \in Inits : pc'[i] = pc[i]
    BY <2>3, NamesDistinct DEF Tasks
  <2>5. \A i \in Inits : joined'[i] = IF i = initializationPromise THEN joined[i] \cup {c} ELSE joined[i]
    BY <2>1, <2>2 DEF TypeOK
  <2>6. \A d \in {"retry", "rec"} : d # c => Awaits(d)' = Awaits(d)
    BY <1>1, <2>3 DEF Awaits
  <2>7. /\ initializationPromise' # None => pc'[initializationPromise'] # "off"
        /\ \A i \in Inits : joined'[i] # {} => pc'[i] # "off"
    BY <2>1, <2>2, <2>4, <2>5 DEF Awaited
  <2>8. ASSUME NEW d \in {"retry", "rec"}
        PROVE  /\ Awaits(d)' => \E i \in Inits : d \in joined'[i]
               /\ \A i \in Inits : d \in joined'[i] => Awaits(d)'
               /\ \A i, j \in Inits : d \in joined'[i] /\ d \in joined'[j] => i = j
    <3>1. CASE d = c
      BY <1>2, <2>2, <2>5, <3>1
    <3>2. CASE d # c
      BY <2>5, <2>6, <3>2 DEF Awaited
    <3> QED  BY <3>1, <3>2
  <2> QED  BY <2>7, <2>8 DEF Awaited
<1>4. CASE initializationPromise = None
  <2>1. PICK i \in Inits :
          /\ pc[i] = "off" /\ initializationPromise' = i
          /\ joined' = [joined EXCEPT ![i] = {c}]
          /\ pc' = [pc EXCEPT ![c] = next, ![i] = FirstStep]
    BY <1>4 DEF EnsureKeysInitialized
  <2>2. pc'[i] = FirstStep /\ FirstStep # "off"
    BY <1>1, <2>1, NamesDistinct DEF TypeOK, FirstStep
  <2>3. /\ \A t \in Tasks : t # c /\ t # i => pc'[t] = pc[t]
        /\ i # "retry" /\ i # "rec" /\ i # "boot"
    BY <1>1, <2>1, NamesDistinct DEF TypeOK
  <2>4. joined[i] = {} /\ \A j \in Inits : joined'[j] = IF j = i THEN {c} ELSE joined[j]
    BY <2>1 DEF TypeOK, Awaited
  <2>5. \A d \in {"retry", "rec"} : d # c => Awaits(d)' = Awaits(d)
    BY <1>1, <2>3 DEF Awaits
  <2>6. /\ initializationPromise' # None => pc'[initializationPromise'] # "off"
        /\ \A j \in Inits : joined'[j] # {} => pc'[j] # "off"
    <3>1. ASSUME NEW j \in Inits, j # i PROVE pc'[j] = pc[j]
      BY <2>3, <3>1, NamesDistinct DEF Tasks
    <3> QED  BY <2>1, <2>2, <2>4, <3>1 DEF Awaited
  <2>7. ASSUME NEW d \in {"retry", "rec"}
        PROVE  /\ Awaits(d)' => \E j \in Inits : d \in joined'[j]
               /\ \A j \in Inits : d \in joined'[j] => Awaits(d)'
               /\ \A j, k \in Inits : d \in joined'[j] /\ d \in joined'[k] => j = k
    <3>1. CASE d = c
      BY <1>2, <2>4, <3>1
    <3>2. CASE d # c
      BY <2>4, <2>5, <3>2 DEF Awaited
    <3> QED  BY <3>1, <3>2
  <2> QED  BY <2>6, <2>7 DEF Awaited
<1> QED  BY <1>3, <1>4

\* An initialization settles, and those who awaited it go on.
LEMMA AwaitedInitEnds ==
    ASSUME TypeOK, Awaited, NEW i \in Inits, InitEnds(i)
    PROVE  Awaited'
<1>1. /\ pc[i] \in {"done", "failed", "conflicted"}
      /\ joined' = [joined EXCEPT ![i] = {}]
      /\ initializationPromise' = IF initializationPromise = i THEN None ELSE initializationPromise
  BY DEF InitEnds
<1>2. \A t \in Tasks : pc'[t] = IF t = i \/ (t = "retry" /\ t \in joined[i]) THEN "off"
                ELSE IF t # "rec" \/ t \notin joined[i] THEN pc[t]
                ELSE IF pc[t] = "cancel" THEN "cancelled" ELSE pc[i]
  BY DEF InitEnds
<1>3. \A j \in Inits : pc'[j] = IF j = i THEN "off" ELSE pc[j]
  BY <1>2, NamesDistinct DEF Tasks
<1>4. \A j \in Inits : joined'[j] = IF j = i THEN {} ELSE joined[j]
  BY <1>1 DEF TypeOK
<1>5. initializationPromise' # None => pc'[initializationPromise'] # "off"
  BY <1>1, <1>3 DEF Awaited, TypeOK
<1>6. \A j \in Inits : joined'[j] # {} => pc'[j] # "off"
  BY <1>3, <1>4 DEF Awaited
<1>7. ASSUME NEW c \in {"retry", "rec"}
      PROVE  Awaits(c)' = (Awaits(c) /\ c \notin joined[i])
  <2>1. c \in Tasks /\ c # i
    BY NamesDistinct
  <2>2. CASE c \notin joined[i]
    BY <1>2, <2>1, <2>2 DEF Awaits
  <2>3. CASE c \in joined[i]
    <3>1. pc'[c] \in {"off", "cancelled", "done", "failed", "conflicted"}
      BY <1>1, <1>2, <2>1, <2>3
    <3> QED  BY <2>3, <3>1 DEF Awaits
  <2> QED  BY <2>2, <2>3
<1>8. ASSUME NEW c \in {"retry", "rec"}
      PROVE  /\ Awaits(c)' => \E j \in Inits : c \in joined'[j]
             /\ \A j \in Inits : c \in joined'[j] => Awaits(c)'
             /\ \A j, k \in Inits : c \in joined'[j] /\ c \in joined'[k] => j = k
  <2>1. /\ Awaits(c) => \E j \in Inits : c \in joined[j]
        /\ \A j \in Inits : c \in joined[j] => Awaits(c)
        /\ \A j, k \in Inits : c \in joined[j] /\ c \in joined[k] => j = k
    BY DEF Awaited
  <2> QED  BY <1>4, <1>7, <2>1
<1> QED  BY <1>5, <1>6, <1>8 DEF Awaited

\* A recovery begins: it awaits the initialization it has cancelled, or none.
LEMMA AwaitedRecover ==
    ASSUME TypeOK, Awaited, Recover
    PROVE  Awaited'
<1>0. "rec" \in Tasks /\ "retry" \in Tasks /\ pc["rec"] = "off" /\ ~Awaits("rec")
  BY NamesDistinct DEF Recover, Awaits
<1>a. ASSUME NEW s, pc' = [pc EXCEPT !["rec"] = s]
      PROVE  pc'["rec"] = s /\ pc'["retry"] = pc["retry"] /\ \A i \in Inits : pc'[i] = pc[i]
  BY <1>a, NamesDistinct DEF TypeOK
<1>1. CASE initializationPromise = None
  <2>1. \E r : CancelDone(r)
    BY <1>1 DEF Recover
  <2>2. PICK s \in {"check", "login", "wipe"} : pc' = [pc EXCEPT !["rec"] = s] /\ UNCHANGED inits
    BY <2>1 DEF CancelDone, WipeOrLogin, RecGoesTo
  <2>3. pc'["rec"] = s /\ pc'["retry"] = pc["retry"] /\ \A i \in Inits : pc'[i] = pc[i]
    BY <2>2, <1>a
  <2>4. \A c \in {"retry", "rec"} : Awaits(c)' = Awaits(c)
    BY <1>0, <2>3 DEF Awaits
  <2> QED  BY <2>2, <2>3, <2>4, AwaitedKept
<1>2. CASE initializationPromise # None
  <2>1. /\ pc' = [pc EXCEPT !["rec"] = "cancel"] /\ initializationPromise' = None
        /\ joined' = [joined EXCEPT ![initializationPromise] = @ \cup {"rec"}]
    BY <1>2 DEF Recover
  <2>2. initializationPromise \in Inits /\ pc[initializationPromise] # "off"
    BY <1>2 DEF Awaited, TypeOK
  <2>3. pc'["rec"] = "cancel" /\ pc'["retry"] = pc["retry"] /\ \A i \in Inits : pc'[i] = pc[i]
    BY <2>1, <1>a
  <2>4. \A i \in Inits : joined'[i] = IF i = initializationPromise THEN joined[i] \cup {"rec"} ELSE joined[i]
    BY <2>1, <2>2 DEF TypeOK
  <2>5. \A i \in Inits : "rec" \notin joined[i]
    BY <1>0 DEF Awaited
  <2>6. Awaits("rec")' /\ Awaits("retry")' = Awaits("retry")
    BY <2>3 DEF Awaits
  <2>7. \A i \in Inits : joined'[i] # {} => pc'[i] # "off"
    BY <2>2, <2>3, <2>4 DEF Awaited
  <2>8. /\ \E i \in Inits : "rec" \in joined'[i]
        /\ \A i, j \in Inits : "rec" \in joined'[i] /\ "rec" \in joined'[j] => i = j
    BY <2>2, <2>4, <2>5
  <2>9. /\ Awaits("retry")' => \E i \in Inits : "retry" \in joined'[i]
        /\ \A i \in Inits : "retry" \in joined'[i] => Awaits("retry")'
        /\ \A i, j \in Inits : "retry" \in joined'[i] /\ "retry" \in joined'[j] => i = j
    <3>1. ASSUME NEW i \in Inits PROVE "retry" \in joined'[i] <=> "retry" \in joined[i]
      <4>1. CASE i = initializationPromise
        <5>1. joined'[i] = joined[i] \cup {"rec"}
          BY <2>4, <4>1
        <5> QED
          BY <5>1
      <4>2. CASE i # initializationPromise
        BY <2>4, <4>2
      <4> QED
        BY <4>1, <4>2
    <3>2. /\ Awaits("retry") => \E i \in Inits : "retry" \in joined[i]
          /\ \A i \in Inits : "retry" \in joined[i] => Awaits("retry")
          /\ \A i, j \in Inits : "retry" \in joined[i] /\ "retry" \in joined[j] => i = j
      BY DEF Awaited
    <3>3. Awaits("retry")' <=> Awaits("retry")
      BY <2>6
    <3> QED
      BY <3>1, <3>2, <3>3
  <2>10. \A c \in {"retry", "rec"} :
           /\ Awaits(c)' => \E i \in Inits : c \in joined'[i]
           /\ \A i \in Inits : c \in joined'[i] => Awaits(c)'
           /\ \A i, j \in Inits : c \in joined'[i] /\ c \in joined'[j] => i = j
    <3>1. ASSUME NEW c \in {"retry", "rec"}, c = "rec"
          PROVE  /\ Awaits(c)' => \E i \in Inits : c \in joined'[i]
                 /\ \A i \in Inits : c \in joined'[i] => Awaits(c)'
                 /\ \A i, j \in Inits : c \in joined'[i] /\ c \in joined'[j] => i = j
      BY <2>6, <2>8, <3>1
    <3>2. ASSUME NEW c \in {"retry", "rec"}, c = "retry"
          PROVE  /\ Awaits(c)' => \E i \in Inits : c \in joined'[i]
                 /\ \A i \in Inits : c \in joined'[i] => Awaits(c)'
                 /\ \A i, j \in Inits : c \in joined'[i] /\ c \in joined'[j] => i = j
      BY <2>9, <3>2
    <3> QED  BY <3>1, <3>2
  <2> QED  BY <2>1, <2>7, <2>10 DEF Awaited
<1> QED  BY <1>1, <1>2
\* A step of a recovery beside the initializations.
LEMMA AwaitedRecovering ==
    ASSUME TypeOK, Awaited, Recovering
    PROVE  Awaited'
<1>1. "rec" \in Tasks /\ "retry" \in Tasks
  BY NamesDistinct
<1>2. ~Awaits("rec")
  BY DEF Awaits, Recovering, Cancelled, Checked, Reset, WipeKeychain, WipeDatabase, LoggedIn,
         LoginFails, Rechecked, ResetAgain, Recovered
<1>3. ASSUME NEW s, NEW c, RecGoesTo(s, c), s \notin {"init", "cancel"} PROVE Awaited'
  <2>1. /\ pc'["rec"] = s /\ pc'["retry"] = pc["retry"] /\ \A i \in Inits : pc'[i] = pc[i]
        /\ UNCHANGED inits
    BY <1>1, <1>3, NamesDistinct DEF RecGoesTo, TypeOK
  <2>2. \A c1 \in {"retry", "rec"} : Awaits(c1)' = Awaits(c1)
    BY <1>2, <1>3, <2>1 DEF Awaits
  <2> QED  BY <2>1, <2>2, AwaitedKept
<1>4. ASSUME NEW tok, EnsureKeysInitialized("rec", "init", tok) PROVE Awaited'
  BY <1>2, <1>4, AwaitedEnsure
<1>5. ASSUME NEW wiped, WipeOrLogin(wiped) PROVE Awaited'
  BY <1>3, <1>5 DEF WipeOrLogin
<1>6. CASE Cancelled
  BY <1>3, <1>5, <1>6 DEF Cancelled, CancelDone
<1>7. CASE Checked \/ Reset
  BY <1>3, <1>5, <1>7 DEF Checked, Reset, RecFails
<1>8. CASE WipeKeychain \/ WipeDatabase
  BY <1>3, <1>8 DEF WipeKeychain, WipeDatabase, RecFails
<1>9. CASE LoggedIn
  BY <1>3, <1>4, <1>9 DEF LoggedIn
<1>10. CASE LoginFails
  <2>1. pc["rec"] \in {"login", "loginAgain"}
    BY <1>10 DEF LoginFails
  <2> QED  BY <1>3, <1>10, <2>1 DEF LoginFails, RecFails
<1>11. CASE Rechecked \/ ResetAgain
  BY <1>3, <1>4, <1>11 DEF Rechecked, ResetAgain
<1>12. CASE Recovered
  BY <1>3, <1>12 DEF Recovered
<1> QED  BY <1>6, <1>7, <1>8, <1>9, <1>10, <1>11, <1>12 DEF Recovering

LEMMA AwaitedStep == ASSUME TypeOK, Awaited, [Next]_vars PROVE Awaited'
<1> USE NamesDistinct
<1>0. "retry" \in Tasks /\ "boot" \in Tasks /\ "rec" \in Tasks
  OBVIOUS
<1>1. CASE UNCHANGED <<pc, inits>>
  BY <1>1, AwaitedKept DEF Awaits
<1>2. ASSUME NEW s, pc' = [pc EXCEPT !["boot"] = s], UNCHANGED inits PROVE Awaited'
  <2>1. \A c \in {"retry", "rec"} : Awaits(c)' = Awaits(c)
    BY <1>0, <1>2 DEF Awaits, TypeOK
  <2>2. \A i \in Inits : pc'[i] = pc[i]
    BY <1>0, <1>2 DEF TypeOK, Tasks
  <2> QED  BY <1>2, <2>1, <2>2, AwaitedKept
<1>3. ASSUME NEW s, pc' = [pc EXCEPT !["retry"] = s], UNCHANGED inits, ~Awaits("retry"),
             s \notin {"init", "cancel"}
      PROVE  Awaited'
  <2>1. \A c \in {"retry", "rec"} : Awaits(c)' = Awaits(c)
    BY <1>0, <1>3 DEF Awaits, TypeOK
  <2>2. \A i \in Inits : pc'[i] = pc[i]
    BY <1>0, <1>3 DEF TypeOK, Tasks
  <2> QED  BY <1>3, <2>1, <2>2, AwaitedKept
<1>4. CASE Calls
  BY <1>1, <1>4 DEF Calls, Serve, Lose, Unauthorized
<1>5. ASSUME NEW i \in Inits, Initialize(i) PROVE Awaited'
  <2>1. PICK s \in {"provision", "maintain", "upload", "failed", "conflicted", "replenish", "done"} :
          pc' = [pc EXCEPT ![i] = s]
    BY <1>5 DEF Initialize, InitSaved, InitProvisioned, InitUploaded, InitRotates, InitMaintained,
                InitGoesTo, OutcomeOf
  <2>2. UNCHANGED inits
    BY <1>5 DEF Initialize
  <2>3. i \in Tasks /\ i # "retry" /\ i # "rec"
    OBVIOUS
  <2>4. \A c \in {"retry", "rec"} : Awaits(c)' = Awaits(c)
    BY <1>0, <2>1, <2>3 DEF Awaits, TypeOK
  <2>5. \A j \in Inits : pc[j] # "off" => pc'[j] # "off"
    BY <2>1 DEF TypeOK, Tasks
  <2> QED  BY <2>2, <2>4, <2>5, AwaitedKept
<1>6. CASE Bootstrapping
  <2>1. CASE ColdStart \/ SignedIn \/ NotSignedIn
    BY <1>2, <2>1 DEF ColdStart, SignedIn, NotSignedIn, RestoreStarts, RestoreEnds
  <2>2. CASE Bootstrapped
    <3>1. CASE EnsureKeysInitialized("boot", "off", token)
      <4>1. ~Awaits("boot")
        BY <2>2 DEF Bootstrapped, Awaits
      <4> QED  BY <3>1, <4>1, AwaitedEnsure
    <3> QED  BY <1>2, <2>2, <3>1 DEF Bootstrapped
  <2>3. CASE RetryRestored
    BY <2>3, AwaitedEnsure DEF RetryRestored, Awaits
  <2>4. CASE Restore("boot")
    BY <1>2, <2>4 DEF Restore, RestoreProbed, RestoreCleared, RestoreProvisioned, RestoreDeferred, RestoreEnds
  <2>5. CASE Restore("retry")
    <3>1. ~Awaits("retry") /\ UNCHANGED inits
      BY <2>5 DEF Restore, RestoreProbed, RestoreCleared, RestoreProvisioned, Awaits
    <3>2. \E s \in {"restored", "off", "provision", "clearing"} : pc' = [pc EXCEPT !["retry"] = s]
      BY <2>5 DEF Restore, RestoreProbed, RestoreCleared, RestoreProvisioned, RestoreDeferred, RestoreEnds
    <3> QED  BY <1>3, <3>1, <3>2
  <2> QED  BY <1>6, <2>1, <2>2, <2>3, <2>4, <2>5 DEF Bootstrapping, Restorers
<1>7. CASE UserActs
  <2>1. CASE LoginUser
    BY <1>2, <2>1 DEF LoginUser
  <2>2. CASE RetryIdentityRestore
    <3>1. ~Awaits("retry") /\ UNCHANGED inits
      BY <2>2 DEF RetryIdentityRestore, Awaits
    <3>2. \E s \in {"restored", "probe"} : pc' = [pc EXCEPT !["retry"] = s]
      BY <2>2 DEF RetryIdentityRestore, RestoreStarts, RestoreEnds
    <3> QED  BY <1>3, <3>1, <3>2
  <2> QED  BY <1>7, <2>1, <2>2, AwaitedRecover DEF UserActs
<1>8. CASE Environment
  <2>1. CASE Restart \/ Relaunch \/ Reinstall
    BY <2>1, AwaitedLaunch DEF Restart, Relaunch, Reinstall
  <2>2. CASE Logout \/ PushArrives \/ OtherDevice
    BY <1>1, <2>2 DEF Logout, PushArrives, OtherDevice
  <2> QED  BY <1>8, <2>1, <2>2 DEF Environment
<1>9. CASE UNCHANGED vars
  BY <1>1, <1>9 DEF vars
<1> QED
  BY <1>4, <1>5, <1>6, <1>7, <1>8, <1>9, AwaitedInitEnds, AwaitedRecovering DEF Next, Initializing

LEMMA AwaitedAlways == Spec => [](TypeOK /\ Awaited)
<1>1. TypeOK /\ Awaited /\ [Next]_vars => Awaited'
  BY AwaitedStep
<1> QED  BY <1>1, AwaitedInit, TypeCorrect, PTL DEF Spec

\* Nobody waits for an initialization that has settled, even where recoveries, restores
\* and logins overlap: a cancelled initialization still answers the recovery that
\* cancelled it, and one that replaces it does not take over those who await it.
THEOREM AwaitedRunsAlways == Spec => []AwaitedRuns
<1>1. Awaited => AwaitedRuns
  BY DEF Awaited, AwaitedRuns
<1> QED  BY <1>1, AwaitedAlways, PTL

\* However restores, recoveries and initializations overlap, a running task is never
\* sent back, and each of its turns is one step nearer to its end: with the fairness
\* that only TLC's run assumes, every recovery ends.
THEOREM TasksRunDownAlways == Spec => TasksRunDown
<1> DEFINE Nears == \A t \in Tasks :
             /\ Turn(t) => Left(t)' < Left(t)
             /\ pc[t] # "off" /\ ~Launch => Left(t)' <= Left(t)
<1>1. ASSUME TypeOK, TypeOK', Awaited, [Next]_vars, NEW t \in Tasks
      PROVE  /\ Turn(t) => Left(t)' < Left(t)
             /\ pc[t] # "off" /\ ~Launch => Left(t)' <= Left(t)
  <2>1. Turn(t) => Left(t)' < Left(t)
    BY <1>1, TurnNears
  <2>2. ASSUME pc[t] # "off", ~Launch, ~Turn(t) PROVE Left(t)' <= Left(t)
    <3>1. ASSUME NEW i \in Inits, InitEnds(i), t \in joined[i] \cap {"retry", "rec"},
                 pc'[t] = IF t = "retry" THEN "off"
                          ELSE IF pc[t] = "cancel" THEN "cancelled" ELSE pc[i]
          PROVE  Rank[pc'[t]] < Rank[pc[t]]
      <4>1. pc[i] \in {"done", "failed", "conflicted"}
        BY <3>1 DEF InitEnds
      <4>2. pc[t] \in {"init", "cancel"}
        BY <1>1, <3>1 DEF Awaited, Awaits
      <4> QED  BY <3>1, <4>1, <4>2, Ranks
    <3> QED  BY <1>1, <2>2, OthersStay, NotSentBack, <3>1
  <2>3. Left(t) \in Nat /\ Left(t)' \in Nat
    BY <1>1, LeftType
  <2> QED  BY <2>1, <2>2, <2>3
<1>2. TypeOK /\ TypeOK' /\ Awaited /\ [Next]_vars => [Nears]_vars
  <2> SUFFICES ASSUME TypeOK, TypeOK', Awaited, [Next]_vars PROVE Nears
    OBVIOUS
  <2> QED  BY <1>1
<1>3. Spec => [][Nears]_vars
  <2> HIDE DEF Nears
  <2> QED  BY <1>2, AwaitedAlways, PTL DEF Spec
<1> QED  BY <1>3 DEF TasksRunDown
=====
