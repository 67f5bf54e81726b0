-------------------------- MODULE PendingWrapClock --------------------------
(***************************************************************************)
(* When did this device start waiting for a group key?                     *)
(* (src/src/services/crypto/pendingWrapClock.ts)  A mirror in memory, a    *)
(* blob in storage that is loaded late, whose reads and writes may fail,   *)
(* an account that comes and goes, and a device clock that may jump.       *)
(*                                                                         *)
(* The exported functions are synchronous: each is one action, built from  *)
(* operators on the record `clock`, which holds mirror and blob.  A mark   *)
(* also records the user who was signed in when it was taken.              *)
(***************************************************************************)
EXTENDS Integers, FiniteSets

CONSTANTS
    Groups, Users,
    MaxTime,     \* bound on the device clock
    Floor,       \* PLAUSIBILITY_FLOOR_MS
    MaxEntries,  \* MAX_ENTRIES
    Unreadable,  \* the owner of a blob that is corrupt or of another version
    None

Times == 0..MaxTime
Marks == [at : Times, by : Users \cup {None}]

ASSUME NamesAssumption ==
    /\ None \notin Groups \cup Users \cup Marks
    /\ Unreadable \notin Users \cup {None}
ASSUME BoundsAssumption == MaxTime \in Nat /\ Floor \in Nat /\ MaxEntries \in Nat
ASSUME GroupsAssumption == IsFiniteSet(Groups)

VARIABLES
    clock,       \* since, ownerless, owner and loaded in memory; blob in storage
    ready,       \* MMKV is initialised
    userId,      \* the signed-in user, or None
    lastUserId,  \* the account the database belongs to, or None
    wiping,      \* localWipe is between its two clears: no, logout, deletion
    now,         \* the device clock
    readFailed,  \* history: a read of the blob has failed
    writeFailed  \* history: a write or removal of the blob has failed

account == <<userId, lastUserId, wiping>>
failures == <<readFailed, writeFailed>>
vars == <<clock, ready, account, now, failures>>

NoMarks == [g \in Groups |-> None]
Absent == [owner |-> None, since |-> NoMarks]
Corrupt == [owner |-> Unreadable, since |-> NoMarks]

MarkedIn(since) == {g \in Groups : since[g] # None}

\* An unloaded mirror over the given blob.
Fresh(blob) ==
    [since |-> NoMarks, ownerless |-> {}, owner |-> None, loaded |-> FALSE, blob |-> blob]

-----------------------------------------------------------------------------
OwnedBlobs(u) ==
    {[owner |-> u, since |-> since] :
        since \in {s \in [Groups -> [at : Times, by : {u}] \cup {None}] :
                     Cardinality(MarkedIn(s)) <= MaxEntries}}

\* A launch: the blob is what the account's last process left.
Init ==
    /\ lastUserId \in Users \cup {None}
    /\ \E blob \in {Absent, Corrupt} \cup (IF lastUserId = None THEN {} ELSE OwnedBlobs(lastUserId)) :
         clock = Fresh(blob)
    /\ ready = FALSE /\ userId = None /\ wiping = "no"
    /\ now \in Times
    /\ readFailed = FALSE /\ writeFailed = FALSE

-----------------------------------------------------------------------------
(* ensureLoaded.                                                            *)

\* Mutant of Switched: the owner is checked at load only.
NeverSwitched(c) == c

\* A definite account mismatch drops the mirror.
Switched(c) ==
    IF userId # None /\ c.owner \notin {None, userId} THEN Fresh(c.blob) ELSE c

\* Marks taken without a user are dropped when an owner is being established.
Attributed(c) ==
    [c EXCEPT !.since = [g \in Groups |-> IF g \in c.ownerless THEN None ELSE c.since[g]],
              !.ownerless = {}]

\* Mutant of Persisted: the guards on loaded and owner are gone.
PersistedAnyway(c, writes) ==
    IF ready /\ writes THEN [c EXCEPT !.blob = [owner |-> c.owner, since |-> c.since]] ELSE c

Persisted(c, writes) ==
    IF c.loaded /\ c.owner # None /\ ready /\ writes
      THEN [c EXCEPT !.blob = [owner |-> c.owner, since |-> c.since]]
      ELSE c

Discarded(c, writes) ==
    [c EXCEPT !.since = NoMarks, !.blob = IF writes THEN Absent ELSE c.blob]

\* Mutant of Earlier: the mirror's mark wins.
MirrorWins(mirrored, stored) == IF mirrored = None THEN stored ELSE mirrored

Earlier(mirrored, stored) ==
    IF stored = None \/ (mirrored # None /\ mirrored.at <= stored.at) THEN mirrored ELSE stored

\* The loop over the stored marks stops at the first one that does not fit.
Taken(c) ==
    LET stored == MarkedIn(c.blob.since)
        new == stored \ MarkedIn(c.since)
        room == MaxEntries - Cardinality(MarkedIn(c.since))
    IN  IF Cardinality(new) <= room THEN {stored}
        ELSE {taken \in SUBSET stored : Cardinality(taken \cap new) = room}

Merged(c, writes) ==
    IF c.blob = Absent THEN {c}
    ELSE IF c.blob.owner # userId THEN {Discarded(c, writes)}
    ELSE {[c EXCEPT !.since = [g \in Groups |->
             IF g \in taken THEN Earlier(c.since[g], c.blob.since[g]) ELSE c.since[g]]] :
            taken \in Taken(c)}

\* Marks taken while the clock was memory-only are written through.
Established(c, preloaded, writes) ==
    LET owned == [c EXCEPT !.owner = userId, !.loaded = TRUE]
    IN  IF preloaded THEN Persisted(owned, writes) ELSE owned

\* An access reads the blob until a read has succeeded.
Reading == ~Switched(clock).loaded /\ userId # None /\ ready

\* What ensureLoaded may leave; a failed read leaves the clock unloaded.
Loaded(reads, writes) ==
    LET c == Switched(clock)
        attributed == Attributed(c)
    IN  IF ~Reading THEN {c}
        ELSE IF ~reads THEN {attributed}
        ELSE {Established(m, attributed.since # NoMarks, writes) : m \in Merged(attributed, writes)}

-----------------------------------------------------------------------------
(* The exported functions.                                                  *)

Plausible(mark) == mark # None /\ mark.at >= Floor /\ mark.at <= now

\* Mutant of Full: an off-by-one at the cap.
OverFull(c) == Cardinality(MarkedIn(c.since)) > MaxEntries

Full(c) == Cardinality(MarkedIn(c.since)) >= MaxEntries

Remarked(c, g) == [c EXCEPT !.since = [c.since EXCEPT ![g] = [at |-> now, by |-> userId]]]

\* Mutant of Noted: the mark is taken and not written.
NotedInMemory(c, g, writes) ==
    IF Plausible(c.since[g]) \/ (c.since[g] = None /\ Full(c)) THEN c
    ELSE IF userId = None THEN [Remarked(c, g) EXCEPT !.ownerless = c.ownerless \cup {g}]
    ELSE [Remarked(c, g) EXCEPT !.ownerless = c.ownerless \ {g}]

Noted(c, g, writes) ==
    IF Plausible(c.since[g]) \/ (c.since[g] = None /\ Full(c)) THEN c
    ELSE IF userId = None THEN [Remarked(c, g) EXCEPT !.ownerless = c.ownerless \cup {g}]
    ELSE Persisted([Remarked(c, g) EXCEPT !.ownerless = c.ownerless \ {g}], writes)

Judged(c, g, writes) ==
    IF userId = None \/ c.since[g] = None \/ Plausible(c.since[g]) THEN c
    ELSE Persisted(Remarked(c, g), writes)

Pruned(c, keep, writes) ==
    LET kept == [g \in Groups |-> IF g \in keep THEN c.since[g] ELSE None]
    IN  IF kept = c.since THEN c ELSE Persisted([c EXCEPT !.since = kept], writes)

\* clearAllPendingWraps.
Cleared(writes) == Fresh(IF ready /\ writes THEN Absent ELSE clock.blob)

\* Storage that is ready may fail to be read, or to be written, in a call.
Reads == IF Reading THEN BOOLEAN ELSE {TRUE}
Writes == IF ready THEN BOOLEAN ELSE {TRUE}

Storage(reads, writes) ==
    /\ readFailed' = (readFailed \/ ~reads)
    /\ writeFailed' = (writeFailed \/ ~writes)

NotePendingWrap(g) ==
    \E reads \in Reads, writes \in Writes :
        /\ Storage(reads, writes)
        /\ \E c \in Loaded(reads, writes) : clock' = Noted(c, g, writes)
        /\ UNCHANGED <<ready, account, now>>

IsPendingWrapPastBound(g) ==
    \E reads \in Reads, writes \in Writes :
        /\ Storage(reads, writes)
        /\ \E c \in Loaded(reads, writes) : clock' = Judged(c, g, writes)
        /\ UNCHANGED <<ready, account, now>>

ClearPendingWrap(g) ==
    \E reads \in Reads, writes \in Writes :
        /\ Storage(reads, writes)
        /\ \E c \in Loaded(reads, writes) : clock' = Pruned(c, Groups \ {g}, writes)
        /\ UNCHANGED <<ready, account, now>>

\* Called with the server's group list by a session that is still current.
PrunePendingWraps(keep) ==
    \E reads \in Reads, writes \in Writes :
        /\ userId # None
        /\ Storage(reads, writes)
        /\ \E c \in Loaded(reads, writes) : clock' = Pruned(c, keep, writes)
        /\ UNCHANGED <<ready, account, now>>

-----------------------------------------------------------------------------
(* Launch, sign-in, sign-out, wipes, and the device clock.                  *)

InitMMKV ==
    /\ ~ready /\ ready' = TRUE
    /\ UNCHANGED <<clock, account, now, failures>>

\* checkAccountSwitch refuses another account than the database's.
SetUser(u) ==
    /\ ready /\ userId = None /\ wiping = "no"
    /\ lastUserId \in {None, u}
    /\ userId' = u /\ lastUserId' = u
    /\ UNCHANGED <<clock, ready, wiping, now, failures>>

\* handleTokensCleared after a 401: the clock is not told.
ClearAuth ==
    /\ userId # None
    /\ userId' = None
    /\ UNCHANGED <<clock, ready, lastUserId, wiping, now, failures>>

\* localWipe, phase 1; a 401 may have cleared the user already.
StartWipe(kind) ==
    /\ ready /\ wiping = "no"
    /\ userId' = None /\ wiping' = kind
    /\ \E writes \in Writes : Storage(TRUE, writes) /\ clock' = Cleared(writes)
    /\ UNCHANGED <<ready, lastUserId, now>>

\* localWipe after MMKV's clearAll; account deletion has emptied the database.
EndWipe ==
    /\ wiping # "no"
    /\ wiping' = "no"
    /\ lastUserId' = IF wiping = "deletion" THEN None ELSE lastUserId
    /\ \E writes \in Writes : Storage(TRUE, writes) /\ clock' = Cleared(writes)
    /\ UNCHANGED <<ready, userId, now>>

\* fullCryptoWipe of a key recovery, whose transaction may fail and which may
\* then be given up.
KeyWipe ==
    /\ userId # None
    /\ lastUserId' \in {lastUserId, None}
    /\ \E writes \in Writes : Storage(TRUE, writes) /\ clock' = Cleared(writes)
    /\ UNCHANGED <<ready, userId, wiping, now>>

Restart ==
    /\ clock' = Fresh(clock.blob)
    /\ ready' = FALSE /\ userId' = None /\ wiping' = "no"
    /\ UNCHANGED <<lastUserId, now, failures>>

\* Time passes, or the device clock is set.
SetClock ==
    /\ now' \in Times
    /\ UNCHANGED <<clock, ready, account, failures>>

Next ==
    \/ \E g \in Groups : NotePendingWrap(g) \/ IsPendingWrapPastBound(g) \/ ClearPendingWrap(g)
    \/ \E keep \in SUBSET Groups : PrunePendingWraps(keep)
    \/ InitMMKV \/ (\E u \in Users : SetUser(u)) \/ ClearAuth
    \/ (\E kind \in {"logout", "deletion"} : StartWipe(kind)) \/ EndWipe \/ KeyWipe
    \/ Restart \/ SetClock

Spec == Init /\ [][Next]_vars

-----------------------------------------------------------------------------
(***************************************************************************)
(* Properties.                                                             *)
(***************************************************************************)

SinceMaps == [Groups -> Marks \cup {None}]

Clocks ==
    [since : SinceMaps, ownerless : SUBSET Groups, owner : Users \cup {None}, loaded : BOOLEAN,
     blob : [owner : Users \cup {None, Unreadable}, since : SinceMaps]]

ClockTypeOK(c) ==
    /\ c \in Clocks
    /\ c.loaded => c.owner # None
    /\ c.blob.owner \notin Users => c.blob.since = NoMarks

AccountTypeOK ==
    /\ ready \in BOOLEAN /\ (userId # None => ready)
    /\ userId \in Users \cup {None} /\ lastUserId \in Users \cup {None}
    /\ wiping \in {"no", "logout", "deletion"}
    /\ now \in Times
    /\ readFailed \in BOOLEAN /\ writeFailed \in BOOLEAN

TypeOK == ClockTypeOK(clock) /\ AccountTypeOK

\* "keeping it would leak one account's group ids into another's clock": no
\* mark another account took is stored under an owner's name, although accounts
\* change without telling the clock, as long as the blob could be read.
StoredMarksOwned ==
    ~readFailed =>
        \A g \in MarkedIn(clock.blob.since) : clock.blob.since[g].by \in {clock.blob.owner, None}

\* The cap refuses marks at every entrance: new ones, stored ones that are
\* merged into a mirror that already holds some, and re-marks.
Capped(c) ==
    /\ Cardinality(MarkedIn(c.since)) <= MaxEntries
    /\ Cardinality(MarkedIn(c.blob.since)) <= MaxEntries

CapHolds == Capped(clock)

\* "that clock has to survive relaunches": once loaded, what the mirror holds is
\* what a relaunch would load, ownerless marks and failed writes aside.
StoredMark(c, g) == IF c.blob.owner = c.owner THEN c.blob.since[g] ELSE None

Written(c) == c.loaded => \A g \in Groups \ c.ownerless : c.since[g] = StoredMark(c, g)

Durable == ~writeFailed => Written(clock)

\* The plausible mark stored for g gives way to a later one in this step.
Restarted(g) ==
    /\ g \in MarkedIn(clock.blob.since) \cap MarkedIn(clock'.blob.since)
    /\ clock.blob.owner = clock'.blob.owner
    /\ Plausible(clock.blob.since[g]) /\ clock'.blob.since[g].at > clock.blob.since[g].at
    /\ ~writeFailed' /\ g \notin clock.ownerless

\* "The FIRST mark wins": no step restarts a plausible stored wait, whatever was
\* marked before the blob could be loaded, unless what was marked is implausible
\* or the merge meets the cap.
FirstMarkWins ==
    [][\A g \in Groups : Restarted(g) =>
         \/ clock.since[g] # None /\ ~Plausible(clock.since[g])
         \/ Cardinality(MarkedIn(clock.since) \cup MarkedIn(clock.blob.since)) > MaxEntries]_vars

\* An implausible mark "describes a clock, not a wait": it restarts no wait
\* that is stored.
NeverRestarted ==
    [][\A g \in Groups : Restarted(g) =>
         Cardinality(MarkedIn(clock.since) \cup MarkedIn(clock.blob.since)) > MaxEntries]_vars

\* "At the cap new marks are REFUSED rather than evicting an existing one": no
\* new mark takes the place of a stored one.
NeverEvicted ==
    [][(\E g \in Groups : NotePendingWrap(g)) /\ clock.blob.owner = clock'.blob.owner /\ ~writeFailed'
         => MarkedIn(clock.blob.since) \subseteq MarkedIn(clock'.blob.since)]_vars

\* Marks taken without a user "stay memory-only".
OwnerlessStayInMemory ==
    \A g \in MarkedIn(clock.blob.since) : clock.blob.since[g].by # None
=============================================================================
