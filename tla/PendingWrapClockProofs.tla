----------------------- MODULE PendingWrapClockProofs -----------------------
(***************************************************************************)
(* Proofs about PendingWrapClock, for every set of groups and users, every *)
(* cap and every range of times.  Each operator on the clock record gets a *)
(* lemma that it keeps the record well formed; the actions follow.         *)
(***************************************************************************)
EXTENDS PendingWrapClock, FiniteSetTheorems, TLAPS

LEMMA NoMarksType == NoMarks \in SinceMaps
BY DEF NoMarks, SinceMaps

LEMMA BlobsType ==
    /\ Absent \in [owner : Users \cup {None, Unreadable}, since : SinceMaps]
    /\ Corrupt \in [owner : Users \cup {None, Unreadable}, since : SinceMaps]
    /\ Absent.owner = None /\ Absent.since = NoMarks
    /\ Corrupt.owner = Unreadable /\ Corrupt.since = NoMarks
BY NoMarksType DEF Absent, Corrupt

LEMMA FreshType ==
    ASSUME NEW b \in [owner : Users \cup {None, Unreadable}, since : SinceMaps],
           b.owner \notin Users => b.since = NoMarks
    PROVE  ClockTypeOK(Fresh(b))
BY NoMarksType DEF ClockTypeOK, Clocks, Fresh

LEMMA SwitchedType ==
    ASSUME NEW c, ClockTypeOK(c)
    PROVE  ClockTypeOK(Switched(c))
BY FreshType DEF ClockTypeOK, Clocks, Switched

LEMMA AttributedType ==
    ASSUME NEW c, ClockTypeOK(c)
    PROVE  ClockTypeOK(Attributed(c))
BY DEF ClockTypeOK, Clocks, Attributed, SinceMaps

LEMMA PersistedType ==
    ASSUME NEW c, ClockTypeOK(c), NEW writes \in BOOLEAN
    PROVE  ClockTypeOK(Persisted(c, writes))
BY DEF ClockTypeOK, Clocks, Persisted

LEMMA DiscardedType ==
    ASSUME NEW c, ClockTypeOK(c), NEW writes \in BOOLEAN
    PROVE  ClockTypeOK(Discarded(c, writes))
BY NoMarksType, BlobsType DEF ClockTypeOK, Clocks, Discarded

LEMMA MergedType ==
    ASSUME NEW c, ClockTypeOK(c), NEW writes \in BOOLEAN, NEW m \in Merged(c, writes)
    PROVE  ClockTypeOK(m) /\ m.loaded = c.loaded /\ m.owner = c.owner
<1>1. CASE m = c
  BY <1>1
<1>2. CASE m = Discarded(c, writes)
  <2>1. ClockTypeOK(m)
    BY <1>2, DiscardedType
  <2> QED  BY <1>2, <2>1 DEF Discarded, ClockTypeOK, Clocks
<1>3. ASSUME NEW taken,
             m = [c EXCEPT !.since = [g \in Groups |->
                    IF g \in taken THEN Earlier(c.since[g], c.blob.since[g]) ELSE c.since[g]]]
      PROVE  ClockTypeOK(m) /\ m.loaded = c.loaded /\ m.owner = c.owner
  <2> DEFINE since == [g \in Groups |->
                IF g \in taken THEN Earlier(c.since[g], c.blob.since[g]) ELSE c.since[g]]
  <2>1. since \in SinceMaps
    BY DEF ClockTypeOK, Clocks, SinceMaps, Earlier
  <2> HIDE DEF since
  <2> QED  BY <1>3, <2>1 DEF ClockTypeOK, Clocks, since
<1> QED  BY <1>1, <1>2, <1>3 DEF Merged

LEMMA EstablishedType ==
    ASSUME NEW c, ClockTypeOK(c), userId \in Users, None \notin Users,
           NEW preloaded \in BOOLEAN, NEW writes \in BOOLEAN
    PROVE  ClockTypeOK(Established(c, preloaded, writes))
<1> DEFINE owned == [c EXCEPT !.owner = userId, !.loaded = TRUE]
<1>1. ClockTypeOK(owned)
  BY DEF ClockTypeOK, Clocks
<1>2. ClockTypeOK(Persisted(owned, writes))
  BY <1>1, PersistedType
<1> QED  BY <1>1, <1>2 DEF Established

LEMMA LoadedType ==
    ASSUME TypeOK, NEW reads \in BOOLEAN, NEW writes \in BOOLEAN, NEW c \in Loaded(reads, writes)
    PROVE  ClockTypeOK(c)
<1> DEFINE a == Attributed(Switched(clock))
<1>1. ClockTypeOK(Switched(clock))
  BY SwitchedType DEF TypeOK
<1>2. ClockTypeOK(a)
  BY <1>1, AttributedType
<1>3. CASE ~Reading
  BY <1>1, <1>3 DEF Loaded
<1>4. CASE Reading /\ ~reads
  BY <1>2, <1>4 DEF Loaded
<1>5. CASE Reading /\ reads
  <2>1. PICK m \in Merged(a, writes) : c = Established(m, a.since # NoMarks, writes)
    BY <1>5 DEF Loaded
  <2>2. ClockTypeOK(m)
    BY <1>2, MergedType
  <2>3. userId \in Users /\ None \notin Users
    BY <1>5, NamesAssumption DEF Reading, TypeOK, AccountTypeOK
  <2>4. (a.since # NoMarks) \in BOOLEAN
    OBVIOUS
  <2> HIDE DEF a
  <2> QED  BY <2>1, <2>2, <2>3, <2>4, EstablishedType
<1> QED  BY <1>3, <1>4, <1>5

LEMMA RemarkedType ==
    ASSUME NEW c, ClockTypeOK(c), AccountTypeOK, NEW g \in Groups,
           c.blob.owner \in Users \cup {None, Unreadable}
    PROVE  ClockTypeOK(Remarked(c, g))
<1>1. [at |-> now, by |-> userId] \in Marks
  BY DEF Marks, AccountTypeOK
<1>2. [c.since EXCEPT ![g] = [at |-> now, by |-> userId]] \in SinceMaps
  BY <1>1 DEF ClockTypeOK, Clocks, SinceMaps
<1> QED  BY <1>2 DEF ClockTypeOK, Clocks, Remarked

LEMMA NotedType ==
    ASSUME NEW c, ClockTypeOK(c), AccountTypeOK, NEW g \in Groups, NEW writes \in BOOLEAN
    PROVE  ClockTypeOK(Noted(c, g, writes))
<1> DEFINE r == Remarked(c, g)
<1>1. ClockTypeOK(r)
  BY RemarkedType DEF ClockTypeOK, Clocks
<1>2. /\ ClockTypeOK([r EXCEPT !.ownerless = c.ownerless \cup {g}])
      /\ ClockTypeOK([r EXCEPT !.ownerless = c.ownerless \ {g}])
  <2> HIDE DEF r
  <2> QED  BY <1>1 DEF ClockTypeOK, Clocks
<1>3. ClockTypeOK(Persisted([r EXCEPT !.ownerless = c.ownerless \ {g}], writes))
  BY <1>2, PersistedType
<1> QED  BY <1>2, <1>3 DEF Noted

LEMMA JudgedType ==
    ASSUME NEW c, ClockTypeOK(c), AccountTypeOK, NEW g \in Groups, NEW writes \in BOOLEAN
    PROVE  ClockTypeOK(Judged(c, g, writes))
<1>1. ClockTypeOK(Remarked(c, g))
  BY RemarkedType DEF ClockTypeOK, Clocks
<1>2. ClockTypeOK(Persisted(Remarked(c, g), writes))
  BY <1>1, PersistedType
<1> QED  BY <1>2 DEF Judged

LEMMA PrunedType ==
    ASSUME NEW c, ClockTypeOK(c), NEW keep, NEW writes \in BOOLEAN
    PROVE  ClockTypeOK(Pruned(c, keep, writes))
<1> DEFINE kept == [g \in Groups |-> IF g \in keep THEN c.since[g] ELSE None]
<1>1. kept \in SinceMaps
  BY DEF ClockTypeOK, Clocks, SinceMaps
<1>2. ClockTypeOK([c EXCEPT !.since = kept])
  <2> HIDE DEF kept
  <2> QED  BY <1>1 DEF ClockTypeOK, Clocks
<1>3. ClockTypeOK(Persisted([c EXCEPT !.since = kept], writes))
  BY <1>2, PersistedType
<1> QED  BY <1>3 DEF Pruned

LEMMA ClearedType ==
    ASSUME TypeOK, NEW writes \in BOOLEAN
    PROVE  ClockTypeOK(Cleared(writes))
<1>1. /\ clock.blob \in [owner : Users \cup {None, Unreadable}, since : SinceMaps]
      /\ clock.blob.owner \notin Users => clock.blob.since = NoMarks
  BY DEF TypeOK, ClockTypeOK, Clocks
<1>2. ClockTypeOK(Fresh(clock.blob)) /\ ClockTypeOK(Fresh(Absent))
  BY <1>1, FreshType, BlobsType
<1> QED  BY <1>2 DEF Cleared

-----------------------------------------------------------------------------
(* Type correctness.                                                        *)

LEMMA ReadsType == Reads \subseteq BOOLEAN /\ Writes \subseteq BOOLEAN
BY DEF Reads, Writes

LEMMA OwnedBlobsType ==
    ASSUME NEW u \in Users, NEW b \in OwnedBlobs(u)
    PROVE  b \in [owner : Users \cup {None, Unreadable}, since : SinceMaps] /\ b.owner \in Users
<1>1. PICK since \in [Groups -> [at : Times, by : {u}] \cup {None}] : b = [owner |-> u, since |-> since]
  BY DEF OwnedBlobs
<1>2. [at : Times, by : {u}] \cup {None} \subseteq Marks \cup {None}
  BY DEF Marks
<1>3. since \in SinceMaps
  BY <1>1, <1>2 DEF SinceMaps
<1> QED  BY <1>1, <1>3

LEMMA InitType == Init => TypeOK
<1> SUFFICES ASSUME Init PROVE TypeOK
  OBVIOUS
<1>1. AccountTypeOK
  BY DEF Init, AccountTypeOK
<1>2. PICK b \in {Absent, Corrupt} \cup
                (IF lastUserId = None THEN {} ELSE OwnedBlobs(lastUserId)) : clock = Fresh(b)
  BY DEF Init
<1>3. /\ b \in [owner : Users \cup {None, Unreadable}, since : SinceMaps]
      /\ b.owner \notin Users => b.since = NoMarks
  <2>1. CASE b \in {Absent, Corrupt}
    BY <2>1, BlobsType
  <2>2. CASE lastUserId \in Users /\ b \in OwnedBlobs(lastUserId)
    BY <2>2, OwnedBlobsType
  <2> QED  BY <1>2, <2>1, <2>2 DEF Init
<1> QED  BY <1>1, <1>2, <1>3, FreshType DEF TypeOK

LEMMA StorageType ==
    ASSUME TypeOK, NEW reads \in BOOLEAN, NEW writes \in BOOLEAN, Storage(reads, writes)
    PROVE  readFailed' \in BOOLEAN /\ writeFailed' \in BOOLEAN
BY Zenon DEF Storage, TypeOK, AccountTypeOK

\* What the steps of the exported functions have in common: the account and the
\* device clock stay, and the clock is what an operator makes of the loaded one.
CallKeeps == UNCHANGED <<ready, account, now>>

LEMMA CallType ==
    ASSUME TypeOK, NEW reads \in Reads, NEW writes \in Writes, Storage(reads, writes), CallKeeps,
           ClockTypeOK(clock')
    PROVE  TypeOK'
<1>1. readFailed' \in BOOLEAN /\ writeFailed' \in BOOLEAN
  BY ReadsType, StorageType
<1>2. AccountTypeOK'
  BY <1>1 DEF CallKeeps, account, TypeOK, AccountTypeOK
<1> QED  BY <1>2 DEF TypeOK, ClockTypeOK

LEMMA TypeStep == TypeOK /\ [Next]_vars => TypeOK'
<1> SUFFICES ASSUME TypeOK, [Next]_vars PROVE TypeOK'
  OBVIOUS
<1> USE ReadsType
<1>1. ASSUME NEW g \in Groups, NotePendingWrap(g) PROVE TypeOK'
  <2>1. PICK reads \in Reads, writes \in Writes :
           /\ Storage(reads, writes) /\ CallKeeps
           /\ \E c \in Loaded(reads, writes) : clock' = Noted(c, g, writes)
    BY <1>1 DEF NotePendingWrap, CallKeeps
  <2>2. PICK c \in Loaded(reads, writes) : clock' = Noted(c, g, writes)
    BY <2>1
  <2>3. ClockTypeOK(clock')
    BY <2>2, LoadedType, NotedType DEF TypeOK
  <2> QED  BY <2>1, <2>3, CallType
<1>2. ASSUME NEW g \in Groups, IsPendingWrapPastBound(g) PROVE TypeOK'
  <2>1. PICK reads \in Reads, writes \in Writes :
           /\ Storage(reads, writes) /\ CallKeeps
           /\ \E c \in Loaded(reads, writes) : clock' = Judged(c, g, writes)
    BY <1>2 DEF IsPendingWrapPastBound, CallKeeps
  <2>2. PICK c \in Loaded(reads, writes) : clock' = Judged(c, g, writes)
    BY <2>1
  <2>3. ClockTypeOK(clock')
    BY <2>2, LoadedType, JudgedType DEF TypeOK
  <2> QED  BY <2>1, <2>3, CallType
<1>3. ASSUME NEW keep, NEW reads \in Reads, NEW writes \in Writes,
             Storage(reads, writes), CallKeeps,
             NEW c \in Loaded(reads, writes), clock' = Pruned(c, keep, writes)
      PROVE  TypeOK'
  <2>1. ClockTypeOK(clock')
    BY <1>3, LoadedType, PrunedType
  <2> QED  BY <1>3, <2>1, CallType
<1>4. ASSUME NEW g \in Groups, ClearPendingWrap(g) PROVE TypeOK'
  BY <1>3, <1>4 DEF ClearPendingWrap, CallKeeps
<1>5. ASSUME NEW keep \in SUBSET Groups, PrunePendingWraps(keep) PROVE TypeOK'
  BY <1>3, <1>5 DEF PrunePendingWraps, CallKeeps
<1>6. CASE InitMMKV
  BY <1>6 DEF InitMMKV, account, failures, TypeOK, AccountTypeOK
<1>7. ASSUME NEW u \in Users, SetUser(u) PROVE TypeOK'
  BY <1>7 DEF SetUser, failures, TypeOK, AccountTypeOK
<1>8. CASE ClearAuth
  BY <1>8 DEF ClearAuth, failures, TypeOK, AccountTypeOK
<1>9. ASSUME NEW writes \in Writes, Storage(TRUE, writes), clock' = Cleared(writes),
             ready' = ready, now' = now,
             userId' \in {userId, None}, lastUserId' \in {lastUserId, None},
             wiping' \in {"no", "logout", "deletion"}
      PROVE  TypeOK'
  <2>1. ClockTypeOK(clock')
    BY <1>9, ClearedType
  <2>2. readFailed' \in BOOLEAN /\ writeFailed' \in BOOLEAN
    BY <1>9, StorageType
  <2>3. AccountTypeOK'
    BY <1>9, <2>2 DEF TypeOK, AccountTypeOK
  <2> QED  BY <2>1, <2>3 DEF TypeOK, ClockTypeOK
<1>10. ASSUME NEW kind \in {"logout", "deletion"}, StartWipe(kind) PROVE TypeOK'
  BY <1>9, <1>10 DEF StartWipe
<1>11. CASE EndWipe
  BY <1>9, <1>11 DEF EndWipe
<1>12. CASE KeyWipe
  <2>1. wiping \in {"no", "logout", "deletion"}
    BY DEF TypeOK, AccountTypeOK
  <2> QED  BY <1>9, <1>12, <2>1 DEF KeyWipe
<1>13. CASE Restart
  <2>1. ClockTypeOK(Fresh(clock.blob))
    BY FreshType DEF TypeOK, ClockTypeOK, Clocks
  <2>2. AccountTypeOK'
    BY <1>13 DEF Restart, failures, TypeOK, AccountTypeOK
  <2> QED  BY <1>13, <2>1, <2>2 DEF Restart, TypeOK, ClockTypeOK
<1>14. CASE SetClock
  BY <1>14 DEF SetClock, account, failures, TypeOK, AccountTypeOK
<1>15. CASE UNCHANGED vars
  BY <1>15 DEF vars, account, failures, TypeOK, AccountTypeOK
<1> QED  BY <1>1, <1>2, <1>4, <1>5, <1>6, <1>7, <1>8, <1>10, <1>11, <1>12, <1>13, <1>14, <1>15 DEF Next

\* Every reachable clock is well formed: a loaded one has an owner, marks are
\* marks, and only a user's blob holds any.
THEOREM TypeCorrect == Spec => []TypeOK
BY InitType, TypeStep, PTL DEF Spec

-----------------------------------------------------------------------------
(* Marks are stored for their owner.  While no read has failed every mark of *)
(* an unloaded mirror was taken without a user, and every mark of a loaded   *)
(* one by its owner or without a user.                                       *)

TakenBy(since, u) == \A g \in Groups : since[g] # None => since[g].by \in {u, None}

Owned(c) ==
    /\ TakenBy(c.since, IF c.loaded THEN c.owner ELSE None)
    /\ TakenBy(c.blob.since, c.blob.owner)

OwnedInv == TypeOK /\ (~readFailed => Owned(clock))

LEMMA NoMarksTakenBy == ASSUME NEW u PROVE TakenBy(NoMarks, u)
BY DEF TakenBy, NoMarks

LEMMA FreshOwned ==
    ASSUME NEW b, TakenBy(b.since, b.owner)
    PROVE  Owned(Fresh(b))
BY NoMarksTakenBy DEF Owned, Fresh

LEMMA PersistedOwned ==
    ASSUME NEW c, ClockTypeOK(c), Owned(c), NEW writes \in BOOLEAN
    PROVE  Owned(Persisted(c, writes))
BY DEF Owned, Persisted, ClockTypeOK, Clocks

LEMMA MergedOwned ==
    ASSUME NEW c, ClockTypeOK(c), Owned(c), ~c.loaded, NEW writes \in BOOLEAN,
           NEW m \in Merged(c, writes)
    PROVE  TakenBy(m.since, userId) /\ TakenBy(m.blob.since, m.blob.owner)
<1>0. TakenBy(c.since, None) /\ TakenBy(c.blob.since, c.blob.owner)
  BY DEF Owned
<1>1. CASE m = c
  BY <1>0, <1>1 DEF TakenBy
<1>2. CASE m = Discarded(c, writes)
  <2>1. m.since = NoMarks /\ m.blob \in {Absent, c.blob}
    BY <1>2 DEF Discarded, ClockTypeOK, Clocks
  <2> QED  BY <1>0, <2>1, NoMarksTakenBy, BlobsType
<1>3. ASSUME c.blob.owner = userId, NEW taken,
             m = [c EXCEPT !.since = [g \in Groups |->
                    IF g \in taken THEN Earlier(c.since[g], c.blob.since[g]) ELSE c.since[g]]]
      PROVE  TakenBy(m.since, userId) /\ TakenBy(m.blob.since, m.blob.owner)
  <2>1. m.blob = c.blob
    BY <1>3 DEF ClockTypeOK, Clocks
  <2>2. m.since = [g \in Groups |->
                    IF g \in taken THEN Earlier(c.since[g], c.blob.since[g]) ELSE c.since[g]]
    BY <1>3 DEF ClockTypeOK, Clocks
  <2>3. \A g \in Groups : m.since[g] \in {c.since[g], c.blob.since[g]}
    BY <2>2 DEF Earlier
  <2> QED  BY <1>0, <1>3, <2>1, <2>3 DEF TakenBy
<1> QED  BY <1>1, <1>2, <1>3 DEF Merged

LEMMA EstablishedOwned ==
    ASSUME NEW c, ClockTypeOK(c), userId \in Users, None \notin Users,
           TakenBy(c.since, userId), TakenBy(c.blob.since, c.blob.owner),
           NEW preloaded \in BOOLEAN, NEW writes \in BOOLEAN,
           NEW e, e = Established(c, preloaded, writes)
    PROVE  Owned(e) /\ e.loaded /\ e.owner = userId
<1> DEFINE owned == [c EXCEPT !.owner = userId, !.loaded = TRUE]
<1>1. ClockTypeOK(owned) /\ Owned(owned) /\ owned.loaded /\ owned.owner = userId
  BY DEF ClockTypeOK, Clocks, Owned
<1>2. /\ Owned(Persisted(owned, writes))
      /\ Persisted(owned, writes).loaded /\ Persisted(owned, writes).owner = userId
  <2> HIDE DEF owned
  <2>1. Owned(Persisted(owned, writes))
    BY <1>1, PersistedOwned
  <2> QED  BY <1>1, <2>1 DEF Persisted, ClockTypeOK, Clocks
<1>3. e \in {owned, Persisted(owned, writes)}
  BY DEF Established
<1> QED  BY <1>1, <1>2, <1>3

LEMMA SwitchedOwned ==
    ASSUME NEW c, ClockTypeOK(c), Owned(c)
    PROVE  /\ Owned(Switched(c))
           /\ Switched(c).loaded /\ userId # None => Switched(c).owner = userId
<1>1. CASE Switched(c) = c
  BY <1>1 DEF Switched, ClockTypeOK, Clocks, Fresh
<1>2. CASE Switched(c) = Fresh(c.blob)
  BY <1>2, FreshOwned DEF Fresh, Owned
<1> QED  BY <1>1, <1>2 DEF Switched

\* A session whose access could read the blob has loaded it.
LEMMA LoadedOwned ==
    ASSUME TypeOK, Owned(clock), NEW writes \in BOOLEAN, NEW c \in Loaded(TRUE, writes)
    PROVE  Owned(c) /\ (userId # None => c.loaded /\ c.owner = userId)
<1> DEFINE s == Switched(clock)
           a == Attributed(s)
<1>1. ClockTypeOK(s) /\ Owned(s) /\ (s.loaded /\ userId # None => s.owner = userId)
  BY SwitchedType, SwitchedOwned DEF TypeOK
<1>2. CASE ~Reading
  <2>1. c = s
    BY <1>2 DEF Loaded
  <2>2. userId # None => s.loaded
    BY <1>2 DEF Reading, TypeOK, AccountTypeOK
  <2> QED  BY <1>1, <2>1, <2>2
<1>3. CASE Reading
  <2>1. PICK m \in Merged(a, writes) : c = Established(m, a.since # NoMarks, writes)
    BY <1>3 DEF Loaded
  <2>2. ClockTypeOK(a)
    BY <1>1, AttributedType
  <2>3. ~s.loaded
    BY <1>3 DEF Reading
  <2>4. Owned(a) /\ ~a.loaded
    <3> HIDE DEF s
    <3>1. /\ a.loaded = s.loaded /\ a.blob = s.blob
          /\ \A g \in Groups : a.since[g] \in {s.since[g], None}
      BY <1>1 DEF Attributed, ClockTypeOK, Clocks
    <3> QED  BY <1>1, <2>3, <3>1 DEF Owned, TakenBy
  <2>5. ClockTypeOK(m) /\ TakenBy(m.since, userId) /\ TakenBy(m.blob.since, m.blob.owner)
    <3> HIDE DEF a
    <3> QED  BY <2>2, <2>4, MergedType, MergedOwned
  <2>6. userId \in Users /\ None \notin Users
    BY <1>3, NamesAssumption DEF Reading, TypeOK, AccountTypeOK
  <2>7. (a.since # NoMarks) \in BOOLEAN
    OBVIOUS
  <2> HIDE DEF a
  <2> QED  BY <2>1, <2>5, <2>6, <2>7, EstablishedOwned
<1> QED  BY <1>2, <1>3

LEMMA RemarkedOwned ==
    ASSUME NEW c, ClockTypeOK(c), Owned(c), userId # None => c.loaded /\ c.owner = userId,
           NEW g \in Groups
    PROVE  Owned(Remarked(c, g))
<1> DEFINE r == Remarked(c, g)
<1>1. /\ r.loaded = c.loaded /\ r.owner = c.owner /\ r.blob = c.blob
      /\ \A h \in Groups : r.since[h] = IF h = g THEN [at |-> now, by |-> userId] ELSE c.since[h]
  BY DEF Remarked, ClockTypeOK, Clocks, SinceMaps
<1>2. userId \in {IF c.loaded THEN c.owner ELSE None, None}
  OBVIOUS
<1> HIDE DEF r
<1>3. TakenBy(r.since, IF c.loaded THEN c.owner ELSE None)
  BY <1>1, <1>2 DEF TakenBy, Owned
<1> QED  BY <1>1, <1>3 DEF Owned, r

LEMMA NotedOwned ==
    ASSUME NEW c, ClockTypeOK(c), AccountTypeOK, Owned(c),
           userId # None => c.loaded /\ c.owner = userId,
           NEW g \in Groups, NEW writes \in BOOLEAN
    PROVE  Owned(Noted(c, g, writes))
<1> DEFINE r == Remarked(c, g)
           added == [r EXCEPT !.ownerless = c.ownerless \cup {g}]
           removed == [r EXCEPT !.ownerless = c.ownerless \ {g}]
<1>1. ClockTypeOK(r) /\ Owned(r)
  BY RemarkedType, RemarkedOwned DEF ClockTypeOK, Clocks
<1>2. ClockTypeOK(added) /\ Owned(added) /\ ClockTypeOK(removed) /\ Owned(removed)
  <2>0. c.ownerless \in SUBSET Groups
    BY DEF ClockTypeOK, Clocks
  <2> HIDE DEF r
  <2> QED  BY <1>1, <2>0 DEF ClockTypeOK, Clocks, Owned
<1>3. Owned(Persisted(removed, writes))
  BY <1>2, PersistedOwned
<1> QED  BY <1>2, <1>3 DEF Noted

LEMMA JudgedOwned ==
    ASSUME NEW c, ClockTypeOK(c), AccountTypeOK, Owned(c),
           userId # None => c.loaded /\ c.owner = userId,
           NEW g \in Groups, NEW writes \in BOOLEAN
    PROVE  Owned(Judged(c, g, writes))
<1>1. ClockTypeOK(Remarked(c, g)) /\ Owned(Remarked(c, g))
  BY RemarkedType, RemarkedOwned DEF ClockTypeOK, Clocks
<1>2. Owned(Persisted(Remarked(c, g), writes))
  BY <1>1, PersistedOwned
<1> QED  BY <1>2 DEF Judged

LEMMA PrunedOwned ==
    ASSUME NEW c, ClockTypeOK(c), Owned(c), NEW keep, NEW writes \in BOOLEAN
    PROVE  Owned(Pruned(c, keep, writes))
<1> DEFINE kept == [g \in Groups |-> IF g \in keep THEN c.since[g] ELSE None]
           p == [c EXCEPT !.since = kept]
<1>1. kept \in SinceMaps
  BY DEF ClockTypeOK, Clocks, SinceMaps
<1>2. TakenBy(kept, IF c.loaded THEN c.owner ELSE None)
  BY DEF Owned, TakenBy
<1>3. ClockTypeOK(p) /\ Owned(p)
  <2> HIDE DEF kept
  <2> QED  BY <1>1, <1>2 DEF ClockTypeOK, Clocks, Owned
<1>4. Owned(Persisted(p, writes))
  BY <1>3, PersistedOwned
<1> QED  BY <1>4 DEF Pruned

LEMMA ClearedOwned ==
    ASSUME TypeOK, Owned(clock), NEW writes \in BOOLEAN
    PROVE  Owned(Cleared(writes))
<1>1. Owned(Fresh(clock.blob))
  BY FreshOwned DEF Owned
<1>2. Owned(Fresh(Absent))
  BY FreshOwned, BlobsType, NoMarksTakenBy
<1> QED  BY <1>1, <1>2 DEF Cleared

LEMMA InitOwned == Init => Owned(clock)
<1> SUFFICES ASSUME Init PROVE Owned(clock)
  OBVIOUS
<1>1. PICK b \in {Absent, Corrupt} \cup
                (IF lastUserId = None THEN {} ELSE OwnedBlobs(lastUserId)) : clock = Fresh(b)
  BY DEF Init
<1>2. TakenBy(b.since, b.owner)
  <2>1. CASE b \in {Absent, Corrupt}
    BY <2>1, BlobsType, NoMarksTakenBy
  <2>2. CASE b \in OwnedBlobs(lastUserId)
    <3>1. PICK since \in [Groups -> [at : Times, by : {lastUserId}] \cup {None}] :
             b = [owner |-> lastUserId, since |-> since]
      BY <2>2 DEF OwnedBlobs
    <3>2. \A g \in Groups : since[g] # None => since[g].by = lastUserId
      BY <3>1
    <3> QED  BY <3>1, <3>2 DEF TakenBy
  <2> QED  BY <1>1, <2>1, <2>2
<1> QED  BY <1>1, <1>2, FreshOwned

LEMMA OwnedStep == OwnedInv /\ [Next]_vars => OwnedInv'
<1> SUFFICES ASSUME OwnedInv, [Next]_vars, ~readFailed' PROVE Owned(clock)'
  BY TypeStep DEF OwnedInv
<1> USE ReadsType DEF OwnedInv
<1>0. ASSUME NEW reads \in Reads, NEW writes \in Writes, Storage(reads, writes)
      PROVE  reads = TRUE /\ writes \in BOOLEAN /\ Owned(clock)
  BY <1>0, Zenon DEF Storage
<1>1. ASSUME NEW g \in Groups, NotePendingWrap(g) PROVE Owned(clock')
  <2>1. PICK reads \in Reads, writes \in Writes :
           /\ Storage(reads, writes)
           /\ \E c \in Loaded(reads, writes) : clock' = Noted(c, g, writes)
    BY <1>1 DEF NotePendingWrap
  <2>2. PICK c \in Loaded(reads, writes) : clock' = Noted(c, g, writes)
    BY <2>1
  <2>3. reads = TRUE /\ writes \in BOOLEAN /\ Owned(clock)
    BY <1>0, <2>1
  <2>4. ClockTypeOK(c) /\ Owned(c) /\ (userId # None => c.loaded /\ c.owner = userId)
    BY <2>2, <2>3, LoadedType, LoadedOwned
  <2> QED  BY <2>2, <2>3, <2>4, NotedOwned DEF TypeOK
<1>2. ASSUME NEW g \in Groups, IsPendingWrapPastBound(g) PROVE Owned(clock')
  <2>1. PICK reads \in Reads, writes \in Writes :
           /\ Storage(reads, writes)
           /\ \E c \in Loaded(reads, writes) : clock' = Judged(c, g, writes)
    BY <1>2 DEF IsPendingWrapPastBound
  <2>2. PICK c \in Loaded(reads, writes) : clock' = Judged(c, g, writes)
    BY <2>1
  <2>3. reads = TRUE /\ writes \in BOOLEAN /\ Owned(clock)
    BY <1>0, <2>1
  <2>4. ClockTypeOK(c) /\ Owned(c) /\ (userId # None => c.loaded /\ c.owner = userId)
    BY <2>2, <2>3, LoadedType, LoadedOwned
  <2> QED  BY <2>2, <2>3, <2>4, JudgedOwned DEF TypeOK
<1>3. ASSUME NEW keep, NEW reads \in Reads, NEW writes \in Writes, Storage(reads, writes),
             NEW c \in Loaded(reads, writes), clock' = Pruned(c, keep, writes)
      PROVE  Owned(clock')
  <2>1. reads = TRUE /\ writes \in BOOLEAN /\ Owned(clock)
    BY <1>0, <1>3
  <2>2. ClockTypeOK(c) /\ Owned(c)
    BY <2>1, LoadedType, LoadedOwned
  <2> QED  BY <1>3, <2>1, <2>2, PrunedOwned
<1>4. ASSUME NEW g \in Groups, ClearPendingWrap(g) PROVE Owned(clock')
  BY <1>3, <1>4 DEF ClearPendingWrap
<1>5. ASSUME NEW keep \in SUBSET Groups, PrunePendingWraps(keep) PROVE Owned(clock')
  BY <1>3, <1>5 DEF PrunePendingWraps
<1>6. ASSUME NEW writes \in Writes, Storage(TRUE, writes), clock' = Cleared(writes)
      PROVE  Owned(clock')
  <2>1. Owned(clock)
    BY <1>6, Zenon DEF Storage
  <2> QED  BY <1>6, <2>1, ClearedOwned
<1>7. (\E kind \in {"logout", "deletion"} : StartWipe(kind)) \/ EndWipe \/ KeyWipe => Owned(clock')
  BY <1>6 DEF StartWipe, EndWipe, KeyWipe
<1>8. CASE Restart
  <2>1. Owned(clock) /\ clock' = Fresh(clock.blob)
    BY <1>8 DEF Restart, failures
  <2> QED  BY <2>1, FreshOwned DEF Owned
<1>9. CASE UNCHANGED <<clock, readFailed>>
  BY <1>9
<1>10. Owned(clock')
  BY <1>1, <1>2, <1>4, <1>5, <1>7, <1>8, <1>9
     DEF Next, InitMMKV, SetUser, ClearAuth, SetClock, vars, failures
<1> QED  BY <1>10 DEF Owned, TakenBy

\* While every read of the blob has succeeded, no mark is stored under the name
\* of an account other than the one that took it, whatever accounts came and went.
THEOREM StoredMarksOwnedAlways == Spec => []StoredMarksOwned
<1>1. Init => OwnedInv
  BY InitType, InitOwned DEF OwnedInv
<1>2. OwnedInv => StoredMarksOwned
  BY DEF OwnedInv, Owned, TakenBy, StoredMarksOwned, MarkedIn
<1> QED  BY <1>1, <1>2, OwnedStep, PTL DEF Spec

-----------------------------------------------------------------------------
(* The cap.                                                                 *)

LEMMA MarkedInFinite ==
    ASSUME NEW since
    PROVE  IsFiniteSet(MarkedIn(since)) /\ Cardinality(MarkedIn(since)) \in Nat
<1>1. MarkedIn(since) \subseteq Groups
  BY DEF MarkedIn
<1> QED  BY <1>1, GroupsAssumption, FS_Subset, FS_CardinalityType

LEMMA FewerMarks ==
    ASSUME NEW since, NEW fewer, MarkedIn(fewer) \subseteq MarkedIn(since),
           Cardinality(MarkedIn(since)) <= MaxEntries
    PROVE  Cardinality(MarkedIn(fewer)) <= MaxEntries
<1>1. Cardinality(MarkedIn(fewer)) <= Cardinality(MarkedIn(since))
  BY MarkedInFinite, FS_Subset
<1> QED  BY <1>1, MarkedInFinite, BoundsAssumption

LEMMA NoMarksFit == MarkedIn(NoMarks) = {} /\ Cardinality(MarkedIn(NoMarks)) <= MaxEntries
<1>1. MarkedIn(NoMarks) = {}
  BY DEF MarkedIn, NoMarks
<1> QED  BY <1>1, FS_EmptySet, BoundsAssumption

LEMMA FreshCapped ==
    ASSUME NEW b, Cardinality(MarkedIn(b.since)) <= MaxEntries
    PROVE  Capped(Fresh(b))
BY NoMarksFit DEF Capped, Fresh

LEMMA SwitchedCapped ==
    ASSUME NEW c, Capped(c)
    PROVE  Capped(Switched(c))
BY FreshCapped DEF Capped, Switched

LEMMA AttributedCapped ==
    ASSUME NEW c, ClockTypeOK(c), Capped(c)
    PROVE  Capped(Attributed(c))
<1>1. Attributed(c).blob = c.blob /\ MarkedIn(Attributed(c).since) \subseteq MarkedIn(c.since)
  BY DEF Attributed, MarkedIn, ClockTypeOK, Clocks
<1> QED  BY <1>1, FewerMarks DEF Capped

LEMMA PersistedCapped ==
    ASSUME NEW c, ClockTypeOK(c), Capped(c), NEW writes \in BOOLEAN
    PROVE  Capped(Persisted(c, writes))
BY DEF Capped, Persisted, ClockTypeOK, Clocks

LEMMA DisjointUnion ==
    ASSUME NEW S, IsFiniteSet(S), NEW T, IsFiniteSet(T), S \cap T = {}
    PROVE  Cardinality(S \cup T) = Cardinality(S) + Cardinality(T)
<1>1. Cardinality(S \cup T) = Cardinality(S) + Cardinality(T) - Cardinality(S \cap T)
  BY FS_Union
<1>2. Cardinality(S \cap T) = 0
  BY FS_EmptySet
<1>3. Cardinality(S) \in Nat /\ Cardinality(T) \in Nat
  BY FS_CardinalityType
<1> QED  BY <1>1, <1>2, <1>3

\* The stored marks that are new to the mirror take no more than the room left.
LEMMA TakenFits ==
    ASSUME NEW c, Capped(c), NEW taken \in Taken(c)
    PROVE  /\ taken \subseteq MarkedIn(c.blob.since)
           /\ Cardinality(MarkedIn(c.since) \cup taken) <= MaxEntries
<1> DEFINE held == MarkedIn(c.since)
           stored == MarkedIn(c.blob.since)
           new == stored \ held
           room == MaxEntries - Cardinality(held)
           fits == taken \cap new
<1>1. IsFiniteSet(held) /\ Cardinality(held) \in Nat /\ IsFiniteSet(stored)
  BY MarkedInFinite
<1>2. taken \subseteq stored /\ Cardinality(fits) <= room
  <2>1. taken \in (IF Cardinality(new) <= room THEN {stored}
                   ELSE {t \in SUBSET stored : Cardinality(t \cap new) = room})
    BY Zenon DEF Taken
  <2>2. CASE Cardinality(new) <= room
    <3>1. taken = stored
      BY <2>1, <2>2, Zenon
    <3>2. fits = new
      BY <3>1
    <3> QED  BY <2>2, <3>1, <3>2
  <2>3. CASE ~(Cardinality(new) <= room)
    <3>1. taken \subseteq stored /\ Cardinality(fits) = room
      BY <2>1, <2>3, Zenon
    <3>2. room <= room
      BY <1>1, BoundsAssumption
    <3> QED  BY <3>1, <3>2
  <2> QED  BY <2>2, <2>3
<1>3. IsFiniteSet(fits) /\ Cardinality(fits) \in Nat
  BY <1>1, <1>2, FS_Subset, FS_CardinalityType
<1>4. held \cup taken = held \cup fits /\ held \cap fits = {}
  BY <1>2
<1>5. Cardinality(held \cup fits) = Cardinality(held) + Cardinality(fits)
  <2> HIDE DEF held, fits
  <2> QED  BY <1>1, <1>3, <1>4, DisjointUnion
<1>6. Cardinality(held \cup taken) <= MaxEntries
  <2>1. Cardinality(fits) <= MaxEntries - Cardinality(held)
    BY <1>2
  <2>2. Cardinality(held \cup taken) = Cardinality(held) + Cardinality(fits)
    BY <1>4, <1>5
  <2> HIDE DEF held, fits
  <2> QED  BY <1>1, <1>3, <2>1, <2>2, BoundsAssumption
<1> QED  BY <1>2, <1>6

LEMMA MergedCapped ==
    ASSUME NEW c, ClockTypeOK(c), Capped(c), NEW writes \in BOOLEAN, NEW m \in Merged(c, writes)
    PROVE  Capped(m)
<1>1. CASE m = c
  BY <1>1
<1>2. CASE m = Discarded(c, writes)
  <2>1. m.since = NoMarks /\ m.blob \in {Absent, c.blob}
    BY <1>2 DEF Discarded, ClockTypeOK, Clocks
  <2> QED  BY <2>1, NoMarksFit, BlobsType DEF Capped
<1>3. ASSUME NEW taken \in Taken(c),
             m = [c EXCEPT !.since = [g \in Groups |->
                    IF g \in taken THEN Earlier(c.since[g], c.blob.since[g]) ELSE c.since[g]]]
      PROVE  Capped(m)
  <2>1. m.blob = c.blob
    BY <1>3 DEF ClockTypeOK, Clocks
  <2>2. m.since = [g \in Groups |->
                    IF g \in taken THEN Earlier(c.since[g], c.blob.since[g]) ELSE c.since[g]]
    BY <1>3 DEF ClockTypeOK, Clocks
  <2>3. MarkedIn(m.since) \subseteq MarkedIn(c.since) \cup taken
    BY <2>2 DEF MarkedIn
  <2>4. /\ taken \subseteq Groups
        /\ Cardinality(MarkedIn(c.since) \cup taken) <= MaxEntries
    BY <1>3, TakenFits DEF MarkedIn
  <2>5. IsFiniteSet(MarkedIn(c.since) \cup taken)
    BY <2>4, GroupsAssumption, FS_Subset DEF MarkedIn
  <2>6. Cardinality(MarkedIn(m.since)) <= Cardinality(MarkedIn(c.since) \cup taken)
    BY <2>3, <2>5, FS_Subset
  <2>7. Cardinality(MarkedIn(m.since)) \in Nat /\ Cardinality(MarkedIn(c.since) \cup taken) \in Nat
    BY <2>5, MarkedInFinite, FS_CardinalityType
  <2> QED  BY <2>1, <2>4, <2>6, <2>7, BoundsAssumption DEF Capped
<1> QED  BY <1>1, <1>2, <1>3 DEF Merged

LEMMA LoadedCapped ==
    ASSUME TypeOK, CapHolds, NEW reads \in BOOLEAN, NEW writes \in BOOLEAN,
           NEW c \in Loaded(reads, writes)
    PROVE  Capped(c)
<1> DEFINE a == Attributed(Switched(clock))
<1>1. ClockTypeOK(Switched(clock)) /\ Capped(Switched(clock))
  BY SwitchedType, SwitchedCapped DEF TypeOK, CapHolds
<1>2. ClockTypeOK(a) /\ Capped(a)
  BY <1>1, AttributedType, AttributedCapped
<1>3. CASE ~Reading \/ ~reads
  BY <1>1, <1>2, <1>3 DEF Loaded
<1>4. CASE Reading /\ reads
  <2>1. PICK m \in Merged(a, writes) : c = Established(m, a.since # NoMarks, writes)
    BY <1>4 DEF Loaded
  <2> DEFINE owned == [m EXCEPT !.owner = userId, !.loaded = TRUE]
  <2>2. ClockTypeOK(m) /\ Capped(m)
    <3> HIDE DEF a
    <3> QED  BY <1>2, MergedType, MergedCapped
  <2>3. userId \in Users /\ None \notin Users
    BY <1>4, NamesAssumption DEF Reading, TypeOK, AccountTypeOK
  <2>4. ClockTypeOK(owned) /\ Capped(owned)
    BY <2>2, <2>3 DEF ClockTypeOK, Clocks, Capped
  <2>5. Capped(Persisted(owned, writes))
    <3> HIDE DEF owned
    <3> QED  BY <2>4, PersistedCapped
  <2> QED  BY <2>1, <2>4, <2>5 DEF Established
<1> QED  BY <1>3, <1>4

\* A group is remarked if it has a mark already or there is room for one.
LEMMA RemarkedCapped ==
    ASSUME NEW c, ClockTypeOK(c), Capped(c), NEW g \in Groups, c.since[g] # None \/ ~Full(c)
    PROVE  Capped(Remarked(c, g))
<1> DEFINE r == Remarked(c, g)
<1>1. r.blob = c.blob /\ MarkedIn(r.since) \subseteq MarkedIn(c.since) \cup {g}
  BY DEF Remarked, MarkedIn, ClockTypeOK, Clocks, SinceMaps
<1>2. Cardinality(MarkedIn(c.since)) \in Nat /\ IsFiniteSet(MarkedIn(c.since))
  BY MarkedInFinite
<1>3. g \in MarkedIn(c.since) \/ Cardinality(MarkedIn(c.since)) + 1 <= MaxEntries
  BY <1>2, BoundsAssumption DEF Full, MarkedIn
<1>4. /\ IsFiniteSet(MarkedIn(c.since) \cup {g})
      /\ Cardinality(MarkedIn(c.since) \cup {g}) =
            IF g \in MarkedIn(c.since) THEN Cardinality(MarkedIn(c.since))
                                       ELSE Cardinality(MarkedIn(c.since)) + 1
  BY <1>2, FS_AddElement
<1> HIDE DEF r
<1>5. Cardinality(MarkedIn(r.since)) <= Cardinality(MarkedIn(c.since) \cup {g})
  BY <1>1, <1>4, FS_Subset
<1>6. Cardinality(MarkedIn(r.since)) \in Nat /\ Cardinality(MarkedIn(c.since)) <= MaxEntries
  BY MarkedInFinite DEF Capped
<1>7. Cardinality(MarkedIn(r.since)) <= MaxEntries
  BY <1>2, <1>3, <1>4, <1>5, <1>6, BoundsAssumption
<1> QED  BY <1>1, <1>7 DEF Capped, r

LEMMA NotedCapped ==
    ASSUME NEW c, ClockTypeOK(c), AccountTypeOK, Capped(c), NEW g \in Groups, NEW writes \in BOOLEAN
    PROVE  Capped(Noted(c, g, writes))
<1> DEFINE r == Remarked(c, g)
           added == [r EXCEPT !.ownerless = c.ownerless \cup {g}]
           removed == [r EXCEPT !.ownerless = c.ownerless \ {g}]
<1>1. CASE Plausible(c.since[g]) \/ (c.since[g] = None /\ Full(c))
  BY <1>1 DEF Noted
<1>2. CASE ~(Plausible(c.since[g]) \/ (c.since[g] = None /\ Full(c)))
  <2>1. ClockTypeOK(r) /\ Capped(r) /\ c.ownerless \in SUBSET Groups
    BY <1>2, RemarkedType, RemarkedCapped DEF ClockTypeOK, Clocks
  <2>2. Capped(added) /\ ClockTypeOK(removed) /\ Capped(removed)
    <3> HIDE DEF r
    <3> QED  BY <2>1 DEF ClockTypeOK, Clocks, Capped
  <2>3. Capped(Persisted(removed, writes))
    BY <2>2, PersistedCapped
  <2> QED  BY <1>2, <2>2, <2>3 DEF Noted
<1> QED  BY <1>1, <1>2

LEMMA JudgedCapped ==
    ASSUME NEW c, ClockTypeOK(c), AccountTypeOK, Capped(c), NEW g \in Groups, NEW writes \in BOOLEAN
    PROVE  Capped(Judged(c, g, writes))
<1>1. CASE c.since[g] = None
  BY <1>1 DEF Judged
<1>2. CASE c.since[g] # None
  <2>1. ClockTypeOK(Remarked(c, g)) /\ Capped(Remarked(c, g))
    BY <1>2, RemarkedType, RemarkedCapped DEF ClockTypeOK, Clocks
  <2>2. Capped(Persisted(Remarked(c, g), writes))
    BY <2>1, PersistedCapped
  <2> QED  BY <2>2 DEF Judged
<1> QED  BY <1>1, <1>2

LEMMA PrunedCapped ==
    ASSUME NEW c, ClockTypeOK(c), Capped(c), NEW keep, NEW writes \in BOOLEAN
    PROVE  Capped(Pruned(c, keep, writes))
<1> DEFINE kept == [g \in Groups |-> IF g \in keep THEN c.since[g] ELSE None]
           p == [c EXCEPT !.since = kept]
<1>1. kept \in SinceMaps /\ MarkedIn(kept) \subseteq MarkedIn(c.since)
  BY DEF ClockTypeOK, Clocks, SinceMaps, MarkedIn
<1>2. Cardinality(MarkedIn(kept)) <= MaxEntries
  BY <1>1, FewerMarks DEF Capped
<1>3. ClockTypeOK(p) /\ Capped(p)
  <2> HIDE DEF kept
  <2> QED  BY <1>1, <1>2 DEF ClockTypeOK, Clocks, Capped
<1>4. Capped(Persisted(p, writes))
  BY <1>3, PersistedCapped
<1> QED  BY <1>4 DEF Pruned

LEMMA InitCapped == Init => CapHolds
<1> SUFFICES ASSUME Init PROVE Capped(clock)
  BY DEF CapHolds
<1>1. PICK b \in {Absent, Corrupt} \cup
                (IF lastUserId = None THEN {} ELSE OwnedBlobs(lastUserId)) : clock = Fresh(b)
  BY DEF Init
<1>2. CASE b \in {Absent, Corrupt}
  BY <1>1, <1>2, BlobsType, NoMarksFit, FreshCapped
<1>3. CASE b \in OwnedBlobs(lastUserId)
  BY <1>1, <1>3, FreshCapped DEF OwnedBlobs
<1> QED  BY <1>1, <1>2, <1>3

LEMMA CapStep == TypeOK /\ CapHolds /\ [Next]_vars => CapHolds'
<1> SUFFICES ASSUME TypeOK, CapHolds, [Next]_vars PROVE Capped(clock')
  BY DEF CapHolds, Capped, MarkedIn
<1> USE ReadsType
<1>1. ASSUME NEW g \in Groups, NotePendingWrap(g) PROVE Capped(clock')
  <2>1. PICK reads \in BOOLEAN, writes \in BOOLEAN :
           \E c \in Loaded(reads, writes) : clock' = Noted(c, g, writes)
    BY <1>1 DEF NotePendingWrap
  <2> QED  BY <2>1, LoadedType, LoadedCapped, NotedCapped DEF TypeOK
<1>2. ASSUME NEW g \in Groups, IsPendingWrapPastBound(g) PROVE Capped(clock')
  <2>1. PICK reads \in BOOLEAN, writes \in BOOLEAN :
           \E c \in Loaded(reads, writes) : clock' = Judged(c, g, writes)
    BY <1>2 DEF IsPendingWrapPastBound
  <2> QED  BY <2>1, LoadedType, LoadedCapped, JudgedCapped DEF TypeOK
<1>3. ASSUME NEW keep, NEW reads \in BOOLEAN, NEW writes \in BOOLEAN,
             NEW c \in Loaded(reads, writes), clock' = Pruned(c, keep, writes)
      PROVE  Capped(clock')
  BY <1>3, LoadedType, LoadedCapped, PrunedCapped
<1>4. ASSUME NEW g \in Groups, ClearPendingWrap(g) PROVE Capped(clock')
  BY <1>3, <1>4 DEF ClearPendingWrap
<1>5. ASSUME NEW keep \in SUBSET Groups, PrunePendingWraps(keep) PROVE Capped(clock')
  BY <1>3, <1>5 DEF PrunePendingWraps
<1>6. ASSUME NEW writes \in BOOLEAN, clock' = Cleared(writes) PROVE Capped(clock')
  BY <1>6, FreshCapped, BlobsType, NoMarksFit DEF Cleared, CapHolds, Capped
<1>7. (\E kind \in {"logout", "deletion"} : StartWipe(kind)) \/ EndWipe \/ KeyWipe => Capped(clock')
  BY <1>6 DEF StartWipe, EndWipe, KeyWipe
<1>8. CASE Restart
  BY <1>8, FreshCapped DEF Restart, CapHolds, Capped
<1>9. CASE UNCHANGED clock
  BY <1>9 DEF CapHolds
<1> QED  BY <1>1, <1>2, <1>4, <1>5, <1>7, <1>8, <1>9 DEF Next, InitMMKV, SetUser, ClearAuth, SetClock, vars

\* Neither the mirror nor the blob ever holds more marks than the cap, although
\* stored marks are merged into a mirror that already holds some.
THEOREM CapHoldsAlways == Spec => []CapHolds
BY InitType, InitCapped, TypeStep, CapStep, PTL DEF Spec

-----------------------------------------------------------------------------
(* Durability.  A loaded mirror is what storage holds, ownerless marks aside, *)
(* and a mirror is loaded only while MMKV is ready, so a write that does not  *)
(* fail takes place.  The cap is part of the argument: a blob within it is    *)
(* merged into an empty mirror as a whole.                                    *)

DurableInv ==
    /\ TypeOK /\ CapHolds
    /\ clock.loaded => ready
    /\ Durable

\* A write of a ready clock that does not fail makes the mirror the blob.
LEMMA PersistedWritten ==
    ASSUME NEW c, ClockTypeOK(c), c.loaded => ready
    PROVE  Written(Persisted(c, TRUE)) /\ Persisted(c, TRUE).loaded = c.loaded
BY DEF Persisted, Written, StoredMark, ClockTypeOK, Clocks

LEMMA PersistedLoaded ==
    ASSUME NEW c, ClockTypeOK(c), NEW writes \in BOOLEAN
    PROVE  Persisted(c, writes).loaded = c.loaded
BY DEF Persisted, ClockTypeOK, Clocks

LEMMA UnloadedWritten == ASSUME NEW c, ~c.loaded PROVE Written(c)
BY DEF Written

\* A blob within the cap is merged into an empty mirror as it is.
LEMMA MergedIntoEmpty ==
    ASSUME NEW c, ClockTypeOK(c), Capped(c), c.since = NoMarks, userId \in Users, None \notin Users,
           NEW m \in Merged(c, TRUE)
    PROVE  \A g \in Groups : m.since[g] = IF m.blob.owner = userId THEN m.blob.since[g] ELSE None
<1>1. CASE c.blob = Absent
  <2>1. m = c
    BY <1>1 DEF Merged
  <2> QED  BY <1>1, <2>1, BlobsType DEF NoMarks
<1>2. CASE c.blob # Absent /\ c.blob.owner # userId
  <2>1. m = Discarded(c, TRUE)
    BY <1>2 DEF Merged
  <2>2. m.since = NoMarks /\ m.blob = Absent
    BY <2>1 DEF Discarded, ClockTypeOK, Clocks
  <2> QED  BY <2>2, BlobsType DEF NoMarks
<1>3. CASE c.blob # Absent /\ c.blob.owner = userId
  <2>1. PICK taken \in Taken(c) :
          m = [c EXCEPT !.since = [g \in Groups |->
                 IF g \in taken THEN Earlier(c.since[g], c.blob.since[g]) ELSE c.since[g]]]
    BY <1>3 DEF Merged
  <2>2. taken = MarkedIn(c.blob.since)
    <3> DEFINE stored == MarkedIn(c.blob.since)
               room == MaxEntries - Cardinality(MarkedIn(c.since))
    <3>1. MarkedIn(c.since) = {} /\ Cardinality(MarkedIn(c.since)) = 0
      BY NoMarksFit, FS_EmptySet
    <3>2. stored \ MarkedIn(c.since) = stored
      BY <3>1
    <3>3. room = MaxEntries
      BY <3>1, BoundsAssumption
    <3>4. Cardinality(stored) <= room
      BY <3>3 DEF Capped
    <3>5. taken \in (IF Cardinality(stored \ MarkedIn(c.since)) <= room THEN {stored}
                     ELSE {t \in SUBSET stored : Cardinality(t \cap (stored \ MarkedIn(c.since))) = room})
      BY Zenon DEF Taken
    <3>6. Cardinality(stored \ MarkedIn(c.since)) <= room
      BY <3>2, <3>4
    <3> QED  BY <3>5, <3>6, Zenon
  <2>3. m.blob = c.blob /\ m.since = [g \in Groups |->
                 IF g \in taken THEN Earlier(c.since[g], c.blob.since[g]) ELSE c.since[g]]
    BY <2>1 DEF ClockTypeOK, Clocks
  <2>4. \A g \in Groups : c.since[g] = None
    BY DEF NoMarks
  <2>5. \A g \in Groups : m.since[g] = c.blob.since[g]
    BY <2>2, <2>3, <2>4 DEF Earlier, MarkedIn
  <2> QED  BY <1>3, <2>3, <2>5
<1> QED  BY <1>1, <1>2, <1>3

LEMMA LoadedReady ==
    ASSUME DurableInv, NEW reads \in BOOLEAN, NEW writes \in BOOLEAN, NEW c \in Loaded(reads, writes)
    PROVE  c.loaded => ready
<1>1. CASE Reading
  BY <1>1 DEF Reading
<1>2. CASE ~Reading
  <2>1. c = Switched(clock)
    BY <1>2 DEF Loaded
  <2> QED  BY <2>1 DEF DurableInv, Switched, Fresh
<1> QED  BY <1>1, <1>2

LEMMA LoadedWritten ==
    ASSUME DurableInv, Written(clock), NEW reads \in BOOLEAN, NEW c \in Loaded(reads, TRUE)
    PROVE  Written(c)
<1> DEFINE s == Switched(clock)
           a == Attributed(s)
<1>1. ClockTypeOK(s) /\ Capped(s) /\ Written(s)
  <2>1. Written(s)
    BY UnloadedWritten DEF Switched, Fresh
  <2> QED  BY <2>1, SwitchedType, SwitchedCapped DEF DurableInv, TypeOK, CapHolds
<1>2. ClockTypeOK(a) /\ Capped(a) /\ a.loaded = s.loaded
  <2>1. a.loaded = s.loaded
    BY <1>1 DEF Attributed, ClockTypeOK, Clocks
  <2> QED  BY <1>1, <2>1, AttributedType, AttributedCapped
<1>3. CASE ~Reading
  BY <1>1, <1>3 DEF Loaded
<1>4. CASE Reading /\ ~reads
  <2>1. c = a /\ ~s.loaded
    BY <1>4 DEF Loaded, Reading
  <2> QED  BY <1>2, <2>1, UnloadedWritten
<1>5. CASE Reading /\ reads
  <2>1. PICK m \in Merged(a, TRUE) : c = Established(m, a.since # NoMarks, TRUE)
    BY <1>5 DEF Loaded
  <2>2. userId \in Users /\ None \notin Users /\ ready
    BY <1>5, NamesAssumption DEF Reading, DurableInv, TypeOK, AccountTypeOK
  <2> DEFINE owned == [m EXCEPT !.owner = userId, !.loaded = TRUE]
  <2>3. ClockTypeOK(m)
    <3> HIDE DEF a
    <3> QED  BY <1>2, <2>1, MergedType
  <2>4. /\ ClockTypeOK(owned) /\ owned.since = m.since /\ owned.blob = m.blob
        /\ owned.owner = userId /\ owned.loaded
    BY <2>2, <2>3 DEF ClockTypeOK, Clocks
  <2>5. CASE a.since # NoMarks
    <3>1. c = Persisted(owned, TRUE)
      BY <2>1, <2>5 DEF Established
    <3> HIDE DEF owned
    <3> QED  BY <2>2, <2>4, <3>1, PersistedWritten
  <2>6. CASE a.since = NoMarks
    <3>1. c = owned
      BY <2>1, <2>6 DEF Established
    <3>2. \A g \in Groups : m.since[g] = IF m.blob.owner = userId THEN m.blob.since[g] ELSE None
      <4> HIDE DEF a
      <4> QED  BY <1>2, <2>1, <2>2, <2>6, MergedIntoEmpty
    <3> HIDE DEF owned
    <3> QED  BY <2>4, <3>1, <3>2 DEF Written, StoredMark
  <2> QED  BY <2>5, <2>6
<1> QED  BY <1>3, <1>4, <1>5

LEMMA NotedWritten ==
    ASSUME NEW c, ClockTypeOK(c), AccountTypeOK, c.loaded => ready,
           NEW g \in Groups, NEW writes \in BOOLEAN
    PROVE  /\ Noted(c, g, writes).loaded = c.loaded
           /\ Written(c) => Written(Noted(c, g, TRUE))
<1> DEFINE r == Remarked(c, g)
           added == [r EXCEPT !.ownerless = c.ownerless \cup {g}]
           removed == [r EXCEPT !.ownerless = c.ownerless \ {g}]
<1>1. ClockTypeOK(r) /\ c.ownerless \in SUBSET Groups
  BY RemarkedType DEF ClockTypeOK, Clocks
<1>2. /\ r.loaded = c.loaded /\ r.owner = c.owner /\ r.blob = c.blob
      /\ \A h \in Groups \ {g} : r.since[h] = c.since[h]
  BY DEF Remarked, ClockTypeOK, Clocks, SinceMaps
<1>3. ClockTypeOK(removed) /\ removed.loaded = c.loaded
  <2> HIDE DEF r
  <2> QED  BY <1>1, <1>2 DEF ClockTypeOK, Clocks
<1>4. added.loaded = c.loaded /\ (Written(c) => Written(added))
  <2>1. /\ added.loaded = r.loaded /\ added.owner = r.owner /\ added.blob = r.blob
        /\ added.since = r.since /\ added.ownerless = c.ownerless \cup {g}
    <3> HIDE DEF r
    <3> QED  BY <1>1 DEF ClockTypeOK, Clocks
  <2> HIDE DEF r, added
  <2> QED  BY <1>2, <2>1 DEF Written, StoredMark
<1>5. /\ Written(Persisted(removed, TRUE))
      /\ Persisted(removed, writes).loaded = c.loaded
  BY <1>3, PersistedWritten, PersistedLoaded
<1> HIDE DEF r, added, removed
<1>6. Noted(c, g, writes) \in {c, added, Persisted(removed, writes)}
  BY DEF Noted, r, added, removed
<1>7. Noted(c, g, TRUE) \in {c, added, Persisted(removed, TRUE)}
  BY DEF Noted, r, added, removed
<1> QED  BY <1>4, <1>5, <1>6, <1>7

LEMMA JudgedWritten ==
    ASSUME NEW c, ClockTypeOK(c), AccountTypeOK, c.loaded => ready,
           NEW g \in Groups, NEW writes \in BOOLEAN
    PROVE  /\ Judged(c, g, writes).loaded = c.loaded
           /\ Written(c) => Written(Judged(c, g, TRUE))
<1>1. ClockTypeOK(Remarked(c, g)) /\ Remarked(c, g).loaded = c.loaded
  <2>1. Remarked(c, g).loaded = c.loaded
    BY DEF Remarked, ClockTypeOK, Clocks
  <2> QED  BY <2>1, RemarkedType DEF ClockTypeOK, Clocks
<1>2. /\ Written(Persisted(Remarked(c, g), TRUE))
      /\ Persisted(Remarked(c, g), writes).loaded = c.loaded
  BY <1>1, PersistedWritten, PersistedLoaded
<1> QED  BY <1>2 DEF Judged

LEMMA PrunedWritten ==
    ASSUME NEW c, ClockTypeOK(c), c.loaded => ready, NEW keep, NEW writes \in BOOLEAN
    PROVE  /\ Pruned(c, keep, writes).loaded = c.loaded
           /\ Written(c) => Written(Pruned(c, keep, TRUE))
<1> DEFINE kept == [g \in Groups |-> IF g \in keep THEN c.since[g] ELSE None]
           p == [c EXCEPT !.since = kept]
<1>1. kept \in SinceMaps
  BY DEF ClockTypeOK, Clocks, SinceMaps
<1>2. ClockTypeOK(p) /\ p.loaded = c.loaded
  <2> HIDE DEF kept
  <2> QED  BY <1>1 DEF ClockTypeOK, Clocks
<1>3. Written(Persisted(p, TRUE)) /\ Persisted(p, writes).loaded = c.loaded
  <2> HIDE DEF p
  <2> QED  BY <1>2, PersistedWritten, PersistedLoaded
<1> QED  BY <1>3 DEF Pruned

LEMMA DurableStep == DurableInv /\ [Next]_vars => DurableInv'
<1> SUFFICES ASSUME DurableInv, [Next]_vars
             PROVE  /\ clock'.loaded => ready'
                    /\ ~writeFailed' => Written(clock')
  BY TypeStep, CapStep DEF DurableInv, Durable, Written, StoredMark
<1> DEFINE Goal == (clock'.loaded => ready') /\ (~writeFailed' => Written(clock'))
<1> SUFFICES Goal
  OBVIOUS
<1> USE ReadsType
<1>0. ASSUME NEW reads \in Reads, NEW writes \in Writes, Storage(reads, writes), ~writeFailed'
      PROVE  writes = TRUE /\ Written(clock)
  BY <1>0, Zenon DEF Storage, DurableInv, Durable
<1>00. ASSUME NEW reads \in BOOLEAN, NEW writes \in BOOLEAN, NEW c \in Loaded(reads, writes)
       PROVE  /\ ClockTypeOK(c) /\ (c.loaded => ready)
              /\ writes = TRUE /\ Written(clock) => Written(c)
  BY <1>00, LoadedType, LoadedReady, LoadedWritten DEF DurableInv
<1>1. ASSUME NEW g \in Groups, NotePendingWrap(g) PROVE Goal
  <2>1. PICK reads \in Reads, writes \in Writes :
           /\ Storage(reads, writes) /\ ready' = ready
           /\ \E c \in Loaded(reads, writes) : clock' = Noted(c, g, writes)
    BY <1>1 DEF NotePendingWrap
  <2>2. PICK c \in Loaded(reads, writes) : clock' = Noted(c, g, writes)
    BY <2>1
  <2>3. /\ Noted(c, g, writes).loaded = c.loaded
        /\ Written(c) => Written(Noted(c, g, TRUE))
    BY <1>00, NotedWritten DEF DurableInv, TypeOK
  <2> QED  BY <1>0, <1>00, <2>1, <2>2, <2>3
<1>2. ASSUME NEW g \in Groups, IsPendingWrapPastBound(g) PROVE Goal
  <2>1. PICK reads \in Reads, writes \in Writes :
           /\ Storage(reads, writes) /\ ready' = ready
           /\ \E c \in Loaded(reads, writes) : clock' = Judged(c, g, writes)
    BY <1>2 DEF IsPendingWrapPastBound
  <2>2. PICK c \in Loaded(reads, writes) : clock' = Judged(c, g, writes)
    BY <2>1
  <2>3. /\ Judged(c, g, writes).loaded = c.loaded
        /\ Written(c) => Written(Judged(c, g, TRUE))
    BY <1>00, JudgedWritten DEF DurableInv, TypeOK
  <2> QED  BY <1>0, <1>00, <2>1, <2>2, <2>3
<1>3. ASSUME NEW keep, NEW reads \in Reads, NEW writes \in Writes, Storage(reads, writes),
             ready' = ready, NEW c \in Loaded(reads, writes), clock' = Pruned(c, keep, writes)
      PROVE  Goal
  <2>1. /\ Pruned(c, keep, writes).loaded = c.loaded
        /\ Written(c) => Written(Pruned(c, keep, TRUE))
    BY <1>00, PrunedWritten
  <2> QED  BY <1>0, <1>00, <1>3, <2>1
<1>4. ASSUME NEW g \in Groups, ClearPendingWrap(g) PROVE Goal
  BY <1>3, <1>4 DEF ClearPendingWrap
<1>5. ASSUME NEW keep \in SUBSET Groups, PrunePendingWraps(keep) PROVE Goal
  BY <1>3, <1>5 DEF PrunePendingWraps
<1>6. ASSUME ~clock'.loaded PROVE Goal
  BY <1>6, UnloadedWritten
<1>7. (\E kind \in {"logout", "deletion"} : StartWipe(kind)) \/ EndWipe \/ KeyWipe \/ Restart => Goal
  <2>1. (\A writes : ~Cleared(writes).loaded) /\ ~Fresh(clock.blob).loaded
    BY DEF Cleared, Fresh
  <2>2. (\E kind \in {"logout", "deletion"} : StartWipe(kind)) \/ EndWipe \/ KeyWipe \/ Restart
          => ~clock'.loaded
    BY <2>1 DEF StartWipe, EndWipe, KeyWipe, Restart
  <2> HIDE DEF Goal
  <2> QED  BY <1>6, <2>2
<1>8. ASSUME UNCHANGED <<clock, writeFailed>>, ready' \in {ready, TRUE} PROVE Goal
  BY <1>8 DEF DurableInv, Durable
<1>9. InitMMKV \/ (\E u \in Users : SetUser(u)) \/ ClearAuth \/ SetClock \/ UNCHANGED vars => Goal
  BY <1>8 DEF InitMMKV, SetUser, ClearAuth, SetClock, vars, failures
<1> QED  BY <1>1, <1>2, <1>4, <1>5, <1>7, <1>9 DEF Next

LEMMA DurableInvAlways == Spec => []DurableInv
<1>1. Init => DurableInv
  <2> SUFFICES ASSUME Init PROVE ~clock.loaded
    BY InitType, InitCapped, UnloadedWritten DEF DurableInv, Durable
  <2> QED  BY DEF Init, Fresh
<1> QED  BY <1>1, DurableStep, PTL DEF Spec

\* Once the clock is loaded, and while every write has succeeded, a relaunch
\* would load exactly the marks the mirror holds, ownerless ones aside.
THEOREM DurableAlways == Spec => []Durable
<1>1. DurableInv => Durable
  BY DEF DurableInv
<1> QED  BY <1>1, DurableInvAlways, PTL

-----------------------------------------------------------------------------
(* The first mark wins.  The stored mark of a group and the mark a step finds *)
(* for it in the mirror once the blob has been loaded: the latter is plausible *)
(* and no later, so the step does not take it again, and what it writes is no  *)
(* later either.  Durability is the inductive invariant that makes this true   *)
(* of a clock loaded by an earlier step.                                       *)

\* A mirror loaded for the blob's owner holds a plausible mark no later than it.
Beats(c, g, blob) ==
    c.loaded /\ c.owner = blob.owner
        => Plausible(c.since[g]) /\ c.since[g].at <= blob.since[g].at

NotLater(c, g, blob) ==
    c.blob.since[g] # None /\ c.blob.owner = blob.owner => c.blob.since[g].at <= blob.since[g].at

\* The same wait is still stored.
Upheld(c, g, blob) ==
    c.blob.owner = blob.owner => c.blob.since[g] # None /\ c.blob.since[g].at <= blob.since[g].at

LEMMA PersistedNotLater ==
    ASSUME NEW c, ClockTypeOK(c), NEW g \in Groups, NEW blob, NEW writes \in BOOLEAN,
           NotLater(c, g, blob),
           c.loaded /\ c.owner = blob.owner /\ c.since[g] # None => c.since[g].at <= blob.since[g].at
    PROVE  NotLater(Persisted(c, writes), g, blob)
<1>1. CASE Persisted(c, writes) = c
  BY <1>1
<1>2. CASE c.loaded /\ Persisted(c, writes) = [c EXCEPT !.blob = [owner |-> c.owner, since |-> c.since]]
  <2>1. Persisted(c, writes).blob = [owner |-> c.owner, since |-> c.since]
    BY <1>2 DEF ClockTypeOK, Clocks
  <2> QED  BY <1>2, <2>1 DEF NotLater
<1> QED  BY <1>1, <1>2 DEF Persisted

LEMMA PersistedUpheld ==
    ASSUME NEW c, ClockTypeOK(c), NEW g \in Groups, NEW blob, NEW writes \in BOOLEAN,
           Upheld(c, g, blob),
           c.loaded /\ c.owner = blob.owner => c.since[g] # None /\ c.since[g].at <= blob.since[g].at
    PROVE  Upheld(Persisted(c, writes), g, blob)
<1>1. CASE Persisted(c, writes) = c
  BY <1>1
<1>2. CASE c.loaded /\ Persisted(c, writes) = [c EXCEPT !.blob = [owner |-> c.owner, since |-> c.since]]
  <2>1. Persisted(c, writes).blob = [owner |-> c.owner, since |-> c.since]
    BY <1>2 DEF ClockTypeOK, Clocks
  <2> QED  BY <1>2, <2>1 DEF Upheld
<1> QED  BY <1>1, <1>2 DEF Persisted

LEMMA NotedUpheld ==
    ASSUME NEW c, ClockTypeOK(c), AccountTypeOK, NEW g \in Groups, NEW blob,
           Beats(c, g, blob), Upheld(c, g, blob), NEW h \in Groups, NEW writes \in BOOLEAN
    PROVE  Upheld(Noted(c, h, writes), g, blob)
<1> DEFINE r == Remarked(c, h)
           added == [r EXCEPT !.ownerless = c.ownerless \cup {h}]
           removed == [r EXCEPT !.ownerless = c.ownerless \ {h}]
<1>1. ClockTypeOK(r) /\ c.ownerless \in SUBSET Groups
  BY RemarkedType DEF ClockTypeOK, Clocks
<1>2. /\ r.loaded = c.loaded /\ r.owner = c.owner /\ r.blob = c.blob
      /\ g # h => r.since[g] = c.since[g]
  BY DEF Remarked, ClockTypeOK, Clocks, SinceMaps
<1>3. /\ ClockTypeOK(removed) /\ added.blob = r.blob /\ removed.blob = r.blob
      /\ removed.loaded = r.loaded /\ removed.owner = r.owner /\ removed.since = r.since
  <2> HIDE DEF r
  <2> QED  BY <1>1 DEF ClockTypeOK, Clocks
<1>4. CASE Plausible(c.since[h])
  BY <1>4 DEF Noted
<1>5. CASE ~Plausible(c.since[h])
  <2>1. Upheld(added, g, blob) /\ Upheld(removed, g, blob)
    <3> HIDE DEF r, added, removed
    <3> QED  BY <1>2, <1>3 DEF Upheld
  <2>2. removed.loaded /\ removed.owner = blob.owner
          => removed.since[g] # None /\ removed.since[g].at <= blob.since[g].at
    <3> HIDE DEF r, added, removed
    <3> QED  BY <1>2, <1>3, <1>5 DEF Beats, Plausible
  <2>3. Upheld(Persisted(removed, writes), g, blob)
    <3> HIDE DEF removed
    <3> QED  BY <1>3, <2>1, <2>2, PersistedUpheld
  <2> HIDE DEF r, added, removed
  <2>4. Noted(c, h, writes) \in {c, added, Persisted(removed, writes)}
    BY DEF Noted, r, added, removed
  <2> QED  BY <2>1, <2>3, <2>4
<1> QED  BY <1>4, <1>5

LEMMA JudgedUpheld ==
    ASSUME NEW c, ClockTypeOK(c), AccountTypeOK, NEW g \in Groups, NEW blob,
           Beats(c, g, blob), Upheld(c, g, blob), NEW h \in Groups, NEW writes \in BOOLEAN
    PROVE  Upheld(Judged(c, h, writes), g, blob)
<1> DEFINE r == Remarked(c, h)
<1>1. ClockTypeOK(r)
  BY RemarkedType DEF ClockTypeOK, Clocks
<1>2. /\ r.loaded = c.loaded /\ r.owner = c.owner /\ r.blob = c.blob
      /\ g # h => r.since[g] = c.since[g]
  BY DEF Remarked, ClockTypeOK, Clocks, SinceMaps
<1>3. CASE Plausible(c.since[h])
  BY <1>3 DEF Judged
<1>4. CASE ~Plausible(c.since[h])
  <2> HIDE DEF r
  <2>1. Upheld(r, g, blob)
    BY <1>2 DEF Upheld
  <2>2. r.loaded /\ r.owner = blob.owner => r.since[g] # None /\ r.since[g].at <= blob.since[g].at
    BY <1>2, <1>4 DEF Beats, Plausible
  <2>3. Upheld(Persisted(r, writes), g, blob)
    BY <1>1, <2>1, <2>2, PersistedUpheld
  <2> QED  BY <2>3 DEF Judged, r
<1> QED  BY <1>3, <1>4

LEMMA PrunedUpheld ==
    ASSUME NEW c, ClockTypeOK(c), NEW g \in Groups, NEW blob,
           Beats(c, g, blob), Upheld(c, g, blob), NEW keep, NEW writes \in BOOLEAN
    PROVE  /\ NotLater(Pruned(c, keep, writes), g, blob)
           /\ g \in keep => Upheld(Pruned(c, keep, writes), g, blob)
<1> DEFINE kept == [h \in Groups |-> IF h \in keep THEN c.since[h] ELSE None]
           p == [c EXCEPT !.since = kept]
<1>1. /\ kept \in SinceMaps /\ kept[g] \in {None, c.since[g]}
      /\ g \in keep => kept[g] = c.since[g]
  BY DEF ClockTypeOK, Clocks, SinceMaps
<1>2. /\ ClockTypeOK(p) /\ p.loaded = c.loaded /\ p.owner = c.owner
      /\ p.blob = c.blob /\ p.since = kept
  <2> HIDE DEF kept
  <2> QED  BY <1>1 DEF ClockTypeOK, Clocks
<1> HIDE DEF kept, p
<1>3. NotLater(p, g, blob) /\ Upheld(p, g, blob) /\ NotLater(c, g, blob)
  BY <1>2 DEF NotLater, Upheld
<1>4. p.loaded /\ p.owner = blob.owner /\ p.since[g] # None => p.since[g].at <= blob.since[g].at
  BY <1>1, <1>2 DEF Beats
<1>5. NotLater(Persisted(p, writes), g, blob)
  BY <1>2, <1>3, <1>4, PersistedNotLater
<1>6. ASSUME g \in keep PROVE Upheld(Persisted(p, writes), g, blob)
  <2>1. p.loaded /\ p.owner = blob.owner => p.since[g] # None /\ p.since[g].at <= blob.since[g].at
    BY <1>1, <1>2, <1>6 DEF Beats, Plausible
  <2> QED  BY <1>2, <1>3, <2>1, PersistedUpheld
<1>7. Pruned(c, keep, writes) \in {c, Persisted(p, writes)}
  BY DEF Pruned, kept, p
<1> QED  BY <1>3, <1>5, <1>6, <1>7

\* The wait stored for g is plausible, what the mirror holds for g is too, and
\* what is stored and what is mirrored fit under the cap together.
Keepable(g) ==
    /\ Plausible(clock.blob.since[g]) /\ g \notin clock.ownerless
    /\ clock.since[g] = None \/ Plausible(clock.since[g])
    /\ Cardinality(MarkedIn(clock.since) \cup MarkedIn(clock.blob.since)) <= MaxEntries

\* Stored marks that fit beside the mirror's are all merged.
LEMMA AllTaken ==
    ASSUME NEW c, NEW taken \in Taken(c),
           Cardinality(MarkedIn(c.since) \cup MarkedIn(c.blob.since)) <= MaxEntries
    PROVE  taken = MarkedIn(c.blob.since)
<1> DEFINE held == MarkedIn(c.since)
           stored == MarkedIn(c.blob.since)
           new == stored \ held
           room == MaxEntries - Cardinality(held)
<1>1. IsFiniteSet(held) /\ Cardinality(held) \in Nat /\ IsFiniteSet(new)
  BY MarkedInFinite, FS_Difference
<1>2. Cardinality(held \cup new) = Cardinality(held) + Cardinality(new)
  <2>1. held \cap new = {}
    OBVIOUS
  <2> HIDE DEF held, new
  <2> QED  BY <1>1, <2>1, DisjointUnion
<1>3. held \cup new = held \cup stored
  OBVIOUS
<1>4. Cardinality(new) <= room
  <2>1. Cardinality(held \cup new) <= MaxEntries
    BY <1>3
  <2>2. Cardinality(new) \in Nat
    BY <1>1, FS_CardinalityType
  <2> HIDE DEF held, new
  <2> QED  BY <1>1, <1>2, <2>1, <2>2, BoundsAssumption
<1>5. taken \in (IF Cardinality(new) <= room THEN {stored}
                 ELSE {t \in SUBSET stored : Cardinality(t \cap new) = room})
  BY Zenon DEF Taken
<1> QED  BY <1>4, <1>5, Zenon

LEMMA MergedBeats ==
    ASSUME NEW c, ClockTypeOK(c), AccountTypeOK, userId # None, NEW g \in Groups,
           Plausible(c.blob.since[g]), c.since[g] = None \/ Plausible(c.since[g]),
           Cardinality(MarkedIn(c.since) \cup MarkedIn(c.blob.since)) <= MaxEntries,
           NEW m \in Merged(c, TRUE)
    PROVE  /\ userId = c.blob.owner =>
                Plausible(m.since[g]) /\ m.since[g].at <= c.blob.since[g].at
           /\ m.blob \in {c.blob, Absent}
<1>1. c.blob # Absent
  <2>1. Absent.since[g] = None
    BY BlobsType DEF NoMarks
  <2> QED  BY <2>1 DEF Plausible
<1>2. CASE c.blob.owner # userId
  <2>1. m = Discarded(c, TRUE)
    BY <1>1, <1>2 DEF Merged
  <2>2. m.blob = Absent
    BY <2>1 DEF Discarded, ClockTypeOK, Clocks
  <2> QED  BY <1>2, <2>2
<1>3. CASE c.blob.owner = userId
  <2>1. PICK taken \in Taken(c) :
          m = [c EXCEPT !.since = [h \in Groups |->
                 IF h \in taken THEN Earlier(c.since[h], c.blob.since[h]) ELSE c.since[h]]]
    BY <1>1, <1>3 DEF Merged
  <2>2. g \in taken
    BY AllTaken DEF Plausible, MarkedIn
  <2>3. m.blob = c.blob /\ m.since[g] = Earlier(c.since[g], c.blob.since[g])
    BY <2>1, <2>2 DEF ClockTypeOK, Clocks
  <2>4. c.blob.since[g] \in Marks /\ (c.since[g] # None => c.since[g] \in Marks)
    BY DEF ClockTypeOK, Clocks, SinceMaps, Plausible
  <2>5. c.blob.since[g].at \in Int /\ (c.since[g] # None => c.since[g].at \in Int)
    BY <2>4, BoundsAssumption DEF Marks, Times
  <2>6. m.since[g] \in {c.since[g], c.blob.since[g]} /\ m.since[g] # None
    BY <2>3, NamesAssumption DEF Earlier, Plausible
  <2>7. m.since[g].at <= c.blob.since[g].at
    BY <2>3, <2>5 DEF Earlier, Plausible
  <2> QED  BY <2>3, <2>6, <2>7
<1> QED  BY <1>2, <1>3

LEMMA LoadedBeats ==
    ASSUME DurableInv, Written(clock), NEW g \in Groups, Keepable(g),
           NEW reads \in BOOLEAN, NEW c \in Loaded(reads, TRUE)
    PROVE  Beats(c, g, clock.blob) /\ Upheld(c, g, clock.blob)
<1> DEFINE s == Switched(clock)
           a == Attributed(s)
<1>0. /\ ClockTypeOK(clock) /\ ClockTypeOK(s) /\ ClockTypeOK(a) /\ AccountTypeOK
      /\ s.blob = clock.blob /\ a.blob = clock.blob /\ a.loaded = s.loaded
  <2>1. ClockTypeOK(clock) /\ ClockTypeOK(s) /\ AccountTypeOK /\ s.blob = clock.blob
    BY SwitchedType DEF DurableInv, TypeOK, Switched, Fresh
  <2>2. a.blob = s.blob /\ a.loaded = s.loaded
    <3> HIDE DEF s
    <3> QED  BY <2>1 DEF Attributed, ClockTypeOK, Clocks
  <2> QED  BY <2>1, <2>2, AttributedType
<1>00. /\ clock.blob.since[g] # None /\ clock.blob.since[g].at \in Int
       /\ clock.blob.owner # None
  <2>0. clock.blob.owner \in Users
    BY <1>0 DEF Keepable, Plausible, ClockTypeOK, NoMarks
  <2>1. clock.blob.since[g] # None /\ clock.blob.since[g] \in Marks
    BY <1>0 DEF Keepable, Plausible, ClockTypeOK, Clocks, SinceMaps
  <2> QED  BY <2>0, <2>1, BoundsAssumption, NamesAssumption DEF Marks, Times
<1>1. ASSUME ~c.loaded, c.blob = clock.blob PROVE Beats(c, g, clock.blob) /\ Upheld(c, g, clock.blob)
  BY <1>1, <1>00 DEF Beats, Upheld
<1>2. CASE ~Reading
  <2>1. c = s
    BY <1>2 DEF Loaded
  <2>2. CASE s = clock
    <3>1. Upheld(c, g, clock.blob)
      BY <1>00, <2>1, <2>2 DEF Upheld
    <3>2. ASSUME c.loaded, c.owner = clock.blob.owner PROVE c.since[g] = clock.blob.since[g]
      BY <2>1, <2>2, <3>2 DEF Keepable, Written, StoredMark
    <3>3. Beats(c, g, clock.blob)
      BY <1>00, <3>2 DEF Beats, Keepable
    <3> QED  BY <3>1, <3>3
  <2>3. CASE s = Fresh(clock.blob)
    BY <1>0, <1>1, <2>1, <2>3 DEF Fresh
  <2> QED  BY <2>2, <2>3 DEF Switched
<1>3. CASE Reading /\ ~reads
  BY <1>0, <1>1, <1>3 DEF Loaded, Reading
<1>4. CASE Reading /\ reads
  <2>1. PICK m \in Merged(a, TRUE) : c = Established(m, a.since # NoMarks, TRUE)
    BY <1>4 DEF Loaded
  <2>2. userId \in Users /\ None \notin Users /\ userId # None
    BY <1>4, NamesAssumption DEF Reading, DurableInv, TypeOK, AccountTypeOK
  <2>3. \A h \in Groups : a.since[h] \in {clock.since[h], None}
    <3>1. \A h \in Groups : a.since[h] \in {s.since[h], None}
      <4> HIDE DEF s
      <4> QED  BY <1>0 DEF Attributed, ClockTypeOK, Clocks
    <3>2. \A h \in Groups : s.since[h] \in {clock.since[h], None}
      BY DEF Switched, Fresh, NoMarks
    <3> QED  BY <3>1, <3>2
  <2>4. Cardinality(MarkedIn(a.since) \cup MarkedIn(a.blob.since)) <= MaxEntries
    <3> DEFINE fewer == MarkedIn(a.since) \cup MarkedIn(a.blob.since)
               more == MarkedIn(clock.since) \cup MarkedIn(clock.blob.since)
    <3>1. fewer \subseteq more
      BY <1>0, <2>3 DEF MarkedIn
    <3>2. IsFiniteSet(more)
      BY MarkedInFinite, FS_Union
    <3>3. Cardinality(fewer) <= Cardinality(more) /\ IsFiniteSet(fewer)
      BY <3>1, <3>2, FS_Subset
    <3>4. Cardinality(fewer) \in Nat /\ Cardinality(more) \in Nat
      BY <3>2, <3>3, FS_CardinalityType
    <3>5. Cardinality(more) <= MaxEntries
      BY DEF Keepable
    <3> QED  BY <3>3, <3>4, <3>5, BoundsAssumption
  <2>5. Plausible(a.blob.since[g]) /\ (a.since[g] = None \/ Plausible(a.since[g]))
    BY <1>0, <2>3 DEF Keepable
  <2>6. /\ userId = clock.blob.owner =>
             Plausible(m.since[g]) /\ m.since[g].at <= clock.blob.since[g].at
        /\ m.blob \in {clock.blob, Absent} /\ ClockTypeOK(m)
    <3> HIDE DEF a
    <3> QED  BY <1>0, <2>2, <2>4, <2>5, MergedBeats, MergedType
  <2> DEFINE owned == [m EXCEPT !.owner = userId, !.loaded = TRUE]
  <2>7. /\ ClockTypeOK(owned) /\ owned.since = m.since /\ owned.blob = m.blob
        /\ owned.owner = userId /\ owned.loaded
    BY <2>2, <2>6 DEF ClockTypeOK, Clocks
  <2>8. c \in {owned, Persisted(owned, TRUE)}
    BY <2>1 DEF Established
  <2> HIDE DEF owned, a
  <2>9. Beats(owned, g, clock.blob) /\ Upheld(owned, g, clock.blob)
    <3>1. Absent.owner # clock.blob.owner
      BY <1>00, BlobsType
    <3> QED  BY <1>00, <2>6, <2>7, <3>1 DEF Beats, Upheld
  <2>10. Beats(Persisted(owned, TRUE), g, clock.blob) /\ Upheld(Persisted(owned, TRUE), g, clock.blob)
    <3>1. /\ Persisted(owned, TRUE).since = owned.since /\ Persisted(owned, TRUE).owner = owned.owner
      BY <2>7 DEF Persisted, ClockTypeOK, Clocks
    <3>2. owned.loaded /\ owned.owner = clock.blob.owner
            => owned.since[g] # None /\ owned.since[g].at <= clock.blob.since[g].at
      BY <2>9 DEF Beats, Plausible
    <3>3. Upheld(Persisted(owned, TRUE), g, clock.blob)
      BY <2>7, <2>9, <3>2, PersistedUpheld
    <3> QED  BY <2>7, <2>9, <3>1, <3>3 DEF Beats
  <2> QED  BY <2>8, <2>9, <2>10
<1> QED  BY <1>2, <1>3, <1>4

\* A call that takes the wait of g off the clock.
Drops(g) ==
    \/ ClearPendingWrap(g)
    \/ \E keep \in SUBSET (Groups \ {g}) : PrunePendingWraps(keep)

LEMMA UpheldNotLater ==
    ASSUME NEW c, NEW g, NEW blob, Upheld(c, g, blob)
    PROVE  NotLater(c, g, blob)
BY DEF Upheld, NotLater

LEMMA FirstMarkStep ==
    ASSUME DurableInv, [Next]_vars, NEW g \in Groups, Keepable(g), ~writeFailed'
    PROVE  /\ NotLater(clock', g, clock.blob)
           /\ ~Drops(g) => Upheld(clock', g, clock.blob)
<1> USE ReadsType
<1>0. ASSUME NEW reads \in Reads, NEW writes \in Writes, Storage(reads, writes)
      PROVE  writes = TRUE /\ Written(clock)
  BY <1>0, Zenon DEF Storage, DurableInv, Durable
<1>00. ASSUME NEW reads \in Reads, NEW writes \in Writes, Storage(reads, writes),
              NEW c \in Loaded(reads, writes)
       PROVE  /\ ClockTypeOK(c) /\ AccountTypeOK
              /\ Beats(c, g, clock.blob) /\ Upheld(c, g, clock.blob)
  BY <1>00, <1>0, LoadedType, LoadedBeats DEF DurableInv, TypeOK
<1>1. ASSUME NEW h \in Groups, NotePendingWrap(h) PROVE Upheld(clock', g, clock.blob)
  BY <1>1, <1>00, NotedUpheld DEF NotePendingWrap
<1>2. ASSUME NEW h \in Groups, IsPendingWrapPastBound(h) PROVE Upheld(clock', g, clock.blob)
  BY <1>2, <1>00, JudgedUpheld DEF IsPendingWrapPastBound
<1>3. ASSUME NEW keep, NEW reads \in Reads, NEW writes \in Writes, Storage(reads, writes),
             NEW c \in Loaded(reads, writes), clock' = Pruned(c, keep, writes)
      PROVE  /\ NotLater(clock', g, clock.blob)
             /\ g \in keep => Upheld(clock', g, clock.blob)
  BY <1>3, <1>00, PrunedUpheld
<1>4. ASSUME NEW h \in Groups, ClearPendingWrap(h)
      PROVE  NotLater(clock', g, clock.blob) /\ (~Drops(g) => Upheld(clock', g, clock.blob))
  <2>1. NotLater(clock', g, clock.blob) /\ (g # h => Upheld(clock', g, clock.blob))
    BY <1>3, <1>4 DEF ClearPendingWrap
  <2> QED  BY <1>4, <2>1 DEF Drops
<1>5. ASSUME NEW keep \in SUBSET Groups, PrunePendingWraps(keep)
      PROVE  NotLater(clock', g, clock.blob) /\ (~Drops(g) => Upheld(clock', g, clock.blob))
  <2>1. NotLater(clock', g, clock.blob) /\ (g \in keep => Upheld(clock', g, clock.blob))
    BY <1>3, <1>5 DEF PrunePendingWraps
  <2>2. g \notin keep => Drops(g)
    BY <1>5 DEF Drops
  <2> QED  BY <2>1, <2>2
<1>6. ASSUME clock'.blob \in {clock.blob, Absent} PROVE Upheld(clock', g, clock.blob)
  <2>1. /\ clock.blob.since[g] # None /\ clock.blob.since[g] \in Marks
        /\ clock.blob.owner \in Users
    BY DEF Keepable, Plausible, DurableInv, TypeOK, ClockTypeOK, Clocks, SinceMaps, NoMarks
  <2>2. clock.blob.since[g].at \in Int
    BY <2>1, BoundsAssumption DEF Marks, Times
  <2> QED  BY <1>6, <2>1, <2>2, BlobsType, NamesAssumption DEF Upheld
<1>7. (\E kind \in {"logout", "deletion"} : StartWipe(kind)) \/ EndWipe \/ KeyWipe \/ Restart
        => clock'.blob \in {clock.blob, Absent}
  <2>1. /\ Fresh(clock.blob).blob = clock.blob
        /\ \A writes : Cleared(writes).blob \in {clock.blob, Absent}
    BY DEF Cleared, Fresh
  <2> QED  BY <2>1 DEF StartWipe, EndWipe, KeyWipe, Restart
<1> QED  BY <1>1, <1>2, <1>4, <1>5, <1>6, <1>7, UpheldNotLater
         DEF Next, InitMMKV, SetUser, ClearAuth, SetClock, vars

\* No step restarts a plausible stored wait: whatever was marked before the blob
\* could be loaded, and whatever accounts came and went, the earliest plausible
\* mark stays the stored one, unless an implausible mark or the cap interferes.
THEOREM FirstMarkWinsAlways == Spec => FirstMarkWins
<1> DEFINE Goal == \A g \in Groups : Restarted(g) =>
             \/ clock.since[g] # None /\ ~Plausible(clock.since[g])
             \/ Cardinality(MarkedIn(clock.since) \cup MarkedIn(clock.blob.since)) > MaxEntries
<1>2. DurableInv /\ [Next]_vars => [Goal]_vars
  <2> SUFFICES ASSUME DurableInv, [Next]_vars, NEW g \in Groups, Restarted(g),
                      ~(clock.since[g] # None /\ ~Plausible(clock.since[g])),
                      ~(Cardinality(MarkedIn(clock.since) \cup MarkedIn(clock.blob.since)) > MaxEntries)
               PROVE  FALSE
    OBVIOUS
  <2>1. Cardinality(MarkedIn(clock.since) \cup MarkedIn(clock.blob.since)) <= MaxEntries
    <3>1. IsFiniteSet(MarkedIn(clock.since) \cup MarkedIn(clock.blob.since))
      BY MarkedInFinite, FS_Union
    <3>2. Cardinality(MarkedIn(clock.since) \cup MarkedIn(clock.blob.since)) \in Nat
      BY <3>1, FS_CardinalityType
    <3> QED  BY <3>2, BoundsAssumption
  <2>2. Keepable(g)
    BY <2>1 DEF Keepable, Restarted
  <2>3. NotLater(clock', g, clock.blob)
    BY <2>2, FirstMarkStep DEF Restarted
  <2>4. /\ clock'.blob.since[g].at > clock.blob.since[g].at
        /\ clock'.blob.since[g].at <= clock.blob.since[g].at
    BY <2>3 DEF NotLater, Restarted, MarkedIn
  <2>5. clock'.blob.since[g].at \in Int /\ clock.blob.since[g].at \in Int
    <3>1. ClockTypeOK(clock) /\ ClockTypeOK(clock')
      <4>1. TypeOK /\ TypeOK'
        BY TypeStep DEF DurableInv
      <4> QED  BY <4>1 DEF TypeOK, ClockTypeOK
    <3>2. clock'.blob.since[g] \in Marks /\ clock.blob.since[g] \in Marks
      BY <3>1 DEF Restarted, MarkedIn, ClockTypeOK, Clocks, SinceMaps
    <3> QED  BY <3>2, BoundsAssumption DEF Marks, Times
  <2> QED  BY <2>4, <2>5
<1>3. Spec => [][Goal]_vars
  BY <1>2, DurableInvAlways, PTL DEF Spec
<1> QED  BY <1>3 DEF FirstMarkWins

\* A stored wait that is plausible, for a group whose mark in memory is plausible too, stays
\* stored and begins no later after any step of its account, marks of other groups and launches
\* included: only that wait's own clearing or pruning takes it off the clock.
WaitKept ==
    [][\A g \in Groups :
         Keepable(g) /\ ~writeFailed' /\ ~Drops(g) /\ clock.blob.owner = clock'.blob.owner
           => clock'.blob.since[g] # None /\ clock'.blob.since[g].at <= clock.blob.since[g].at]_vars

\* No step of the account evicts or postpones a plausible stored wait that fits under the cap,
\* as long as storage can be written (notePendingWrap, "REFUSED rather than evicting").
THEOREM WaitKeptAlways == Spec => WaitKept
<1> DEFINE Goal == \A g \in Groups :
         Keepable(g) /\ ~writeFailed' /\ ~Drops(g) /\ clock.blob.owner = clock'.blob.owner
           => clock'.blob.since[g] # None /\ clock'.blob.since[g].at <= clock.blob.since[g].at
<1>1. DurableInv /\ [Next]_vars => [Goal]_vars
  BY FirstMarkStep DEF Upheld
<1>2. Spec => [][Goal]_vars
  BY <1>1, DurableInvAlways, PTL DEF Spec
<1> QED  BY <1>2 DEF WaitKept
=============================================================================
