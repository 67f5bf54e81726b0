------------------------------ MODULE GroupKey ------------------------------
(***************************************************************************)
(* Group keys on this device (src/src/services/crypto/contentCrypto.ts):   *)
(* the in-memory cache, the copy in the database, the one request per      *)
(* group its readers share, the 30-second pending stamps and the marks of  *)
(* the pending-wrap clock; with the delivery handler, key loading,         *)
(* self-wrap, decrypt-and-retry, logout and the key wipe that work on them.*)
(*                                                                         *)
(* A cached key is a byte array that readers hold by reference: a reader   *)
(* that awaits between reading a key and using it still holds the array    *)
(* when invalidateGroupKey or clearGroupKeyCache fills it with zeroes.     *)
(***************************************************************************)
EXTENDS Naturals, FiniteSets

CONSTANTS
    Groups,   \* group ids
    Fetches,  \* names of requests in progress at the same time
    Readers,  \* names of suspended callers that will use a key
    None

ASSUME NoneAssumption == None \notin Groups \cup Fetches

VARIABLES
    cached,     \* groups in groupKeyCache; a cached array is never zeroed
    stored,     \* groups with a key in the database
    unsaved,    \* cached groups whose last write to the database failed
    marked,     \* groups the pending-wrap clock has an entry for
    pending,    \* groups whose pending stamp has not expired
    inflight,   \* per group: the request its readers share, or None
    step,       \* per request: idle, or what it awaits
    groupOf,    \* per request: its group, or None
    answer,     \* per request: the envelope the server answered with
    reading,    \* per reader: the group it reads, or None
    awaiting,   \* per reader: the request it waits for, or None
    holding,    \* per reader: the array it holds
    deliveries, \* groups with a wrapped_key_delivered event on its way
    dedup,      \* groups whose delivery was handled less than 30 s ago
    envelope,   \* the server's envelope for this device, per group
    session,    \* signed in, signed out, or without an identity key pair
    crossed     \* history: requests were in progress at the last wipe

keys == <<cached, stored, unsaved, marked>>
fetches == <<inflight, step, groupOf, answer>>
readers == <<reading, awaiting, holding>>
server == <<deliveries, envelope>>
vars == <<keys, pending, fetches, readers, server, dedup, session, crossed>>

Steps == {"idle", "asked", "answered", "resolving", "recovering", "retrying", "processed"}
Envelopes == {"none", "unsigned", "good", "dead"}
Holdings == {"nothing", "current", "former", "zeroed"}

Running == {f \in Fetches : step[f] # "idle"}
NoFetches == [g \in Groups |-> None]

-----------------------------------------------------------------------------
Init ==
    /\ cached = {} /\ stored \in SUBSET Groups /\ unsaved = {} /\ marked = {}
    /\ pending = {}
    /\ inflight = NoFetches
    /\ step = [f \in Fetches |-> "idle"] /\ groupOf = [f \in Fetches |-> None]
    /\ answer = [f \in Fetches |-> "none"]
    /\ reading = [r \in Readers |-> None] /\ awaiting = [r \in Readers |-> None]
    /\ holding = [r \in Readers |-> "nothing"]
    /\ deliveries = {} /\ dedup = {}
    /\ envelope \in [Groups -> Envelopes]
    /\ session = "in"
    /\ crossed = FALSE

\* Every reader whose array belongs to a group of gs now holds it as state.
Held(gs, state) ==
    [r \in Readers |-> IF reading[r] \in gs /\ holding[r] = "current" THEN state ELSE holding[r]]

\* persistGroupKey: a new array replaces the cached one, the wait is over.  A
\* write that fails is swallowed, and the database keeps what it had.
Persist(g) ==
    /\ cached' = cached \cup {g} /\ marked' = marked \ {g}
    /\ holding' = Held({g}, "former")
    /\ \/ stored' = stored \cup {g} /\ unsaved' = unsaved \ {g}
       \/ UNCHANGED stored /\ unsaved' = unsaved \cup {g}

\* stampPending and pendingOrStale: every pending error starts the clock.
Stamp(g) ==
    pending' = pending \cup {g} /\ marked' = marked \cup {g} /\ UNCHANGED <<cached, stored, unsaved>>

-----------------------------------------------------------------------------
(* getOrFetchGroupKey up to its first await, by a reader r.                 *)

Hold(r, g) ==
    /\ reading' = [reading EXCEPT ![r] = g]
    /\ holding' = [holding EXCEPT ![r] = "current"]
    /\ UNCHANGED awaiting

Cached(r, g) == g \in cached /\ Hold(r, g) /\ UNCHANGED <<keys, fetches>>

\* The 30-second gate comes before the database.
Gated(g, stamps) ==
    /\ g \notin cached /\ g \in stamps
    /\ marked' = marked \cup {g}
    /\ UNCHANGED <<cached, stored, unsaved, fetches, readers>>

FromDatabase(r, g, stamps) ==
    /\ g \notin cached /\ g \notin stamps /\ g \in stored
    /\ cached' = cached \cup {g} /\ marked' = marked \ {g}
    /\ Hold(r, g)
    /\ UNCHANGED <<stored, unsaved, fetches>>

\* A read of the database that throws counts as one that finds nothing.
Missed(g, stamps) == g \notin cached \cup stamps

Await(r, f) == awaiting' = [awaiting EXCEPT ![r] = f]

\* Mutant of Shares: nobody looks for a request in progress.
NeverShares(g) == FALSE

Shares(g) == inflight[g] # None

Joins(r, g) == Shares(g) /\ Await(r, inflight[g]) /\ UNCHANGED fetches

Asks(r, g) ==
    /\ ~Shares(g)
    /\ \E f \in Fetches \ Running :
         /\ inflight' = [inflight EXCEPT ![g] = f]
         /\ step' = [step EXCEPT ![f] = "asked"]
         /\ groupOf' = [groupOf EXCEPT ![f] = g]
         /\ Await(r, f)
    /\ UNCHANGED answer

FromServer(r, g, stamps) ==
    /\ Missed(g, stamps)
    /\ Joins(r, g) \/ Asks(r, g)
    /\ reading' = [reading EXCEPT ![r] = g]
    /\ UNCHANGED <<keys, holding>>

\* stamps: the pending stamps the call sees.
GetOrFetch(r, g, stamps) ==
    /\ reading[r] = None
    /\ \/ Cached(r, g) \/ Gated(g, stamps) \/ FromDatabase(r, g, stamps) \/ FromServer(r, g, stamps)

Read(r, g) ==
    /\ session # "out"
    /\ GetOrFetch(r, g, pending)
    /\ UNCHANGED <<pending, server, dedup, session, crossed>>

\* handleWrappedKeyDelivered drops an event it has seen; otherwise it evicts
\* the stamp and reads.
DropDelivery(g) ==
    /\ g \in deliveries /\ g \in dedup
    /\ deliveries' = deliveries \ {g}
    /\ UNCHANGED <<keys, pending, fetches, readers, envelope, dedup, session, crossed>>

HandleDelivery(r, g) ==
    /\ g \in deliveries /\ g \notin dedup /\ session # "out"
    /\ deliveries' = deliveries \ {g}
    /\ dedup' = dedup \cup {g}
    /\ pending' = pending \ {g}
    /\ GetOrFetch(r, g, pending')
    /\ UNCHANGED <<envelope, session, crossed>>

-----------------------------------------------------------------------------
(* The shared request.                                                      *)

\* Mutant of EndFetch: the ended request stays in the map.
LeaveInflight(f) ==
    /\ step' = [step EXCEPT ![f] = "idle"] /\ groupOf' = [groupOf EXCEPT ![f] = None]
    /\ answer' = [answer EXCEPT ![f] = "none"]
    /\ UNCHANGED inflight

\* Mutant of EndFetch: the request forgets its answer, not its group.
KeepGroup(f) ==
    /\ step' = [step EXCEPT ![f] = "idle"] /\ UNCHANGED groupOf
    /\ answer' = [answer EXCEPT ![f] = "none"]
    /\ inflight' = [inflight EXCEPT ![groupOf[f]] = None]

\* The finally block forgets whatever request the group shares by now.
EndFetch(f) ==
    /\ step' = [step EXCEPT ![f] = "idle"] /\ groupOf' = [groupOf EXCEPT ![f] = None]
    /\ answer' = [answer EXCEPT ![f] = "none"]
    /\ inflight' = [inflight EXCEPT ![groupOf[f]] = None]

\* Mutant of StopWaiting: the readers of a settled request are not resumed.
KeepWaiting(f) == UNCHANGED awaiting

Waiting(f) == {r \in Readers : awaiting[r] = f}
StopWaiting(f) == awaiting' = [r \in Readers |-> IF r \in Waiting(f) THEN None ELSE awaiting[r]]

\* The promise rejects: its readers give up.
Reject(f) ==
    /\ EndFetch(f)
    /\ StopWaiting(f)
    /\ reading' = [r \in Readers |-> IF r \in Waiting(f) THEN None ELSE reading[r]]
    /\ UNCHANGED holding

Advance(f, next) == step' = [step EXCEPT ![f] = next] /\ UNCHANGED <<inflight, groupOf>>

Answered(f) ==
    /\ step[f] = "asked"
    /\ Advance(f, "answered")
    /\ answer' = [answer EXCEPT ![f] = envelope[groupOf[f]]]
    /\ UNCHANGED <<keys, pending, readers, server, dedup, session, crossed>>

\* The request fails or times out, or the sender's key cannot be fetched.
RequestFails(f) ==
    /\ step[f] \in {"asked", "resolving", "retrying"}
    /\ Reject(f)
    /\ UNCHANGED <<keys, pending, server, dedup, session, crossed>>

NoEnvelope(f) ==
    /\ step[f] = "answered" /\ answer[f] = "none"
    /\ Stamp(groupOf[f])
    /\ Reject(f)
    /\ UNCHANGED <<server, dedup, session, crossed>>

\* An envelope without a sender stamps the group but starts no clock.
NoSender(f) ==
    /\ step[f] = "answered" /\ answer[f] = "unsigned"
    /\ pending' = pending \cup {groupOf[f]}
    /\ Reject(f)
    /\ UNCHANGED <<keys, server, dedup, session, crossed>>

\* processReceivedGroupKey looks for a user, then awaits the sender's key.
ResolveSender(f) ==
    /\ step[f] = "answered" /\ answer[f] \in {"good", "dead"}
    /\ IF session = "out" THEN Reject(f)
       ELSE Advance(f, "resolving") /\ UNCHANGED <<answer, readers>>
    /\ UNCHANGED <<keys, pending, server, dedup, session, crossed>>

\* unwrapGroupKey needs the identity key pair, which a wipe took away.
Unwrap(f) ==
    /\ step[f] \in {"resolving", "retrying"}
    /\ session = "in" /\ answer[f] = "good"
    /\ Persist(groupOf[f])
    /\ Advance(f, "processed")
    /\ UNCHANGED <<answer, pending, reading, awaiting, server, dedup, session, crossed>>

UnwrapFails(f) ==
    /\ step[f] = "resolving"
    /\ \/ session # "in" /\ Reject(f)
       \/ session = "in" /\ answer[f] = "dead" /\ Advance(f, "recovering") /\ UNCHANGED <<answer, readers>>
    /\ UNCHANGED <<keys, pending, server, dedup, session, crossed>>

\* Mutant of Retries: the retry reads the key like any reader and waits for
\* the request it is part of.
RetriesThroughRead(f) == inflight[groupOf[f]] # f

\* retryUnwrap processes the captured envelope again.
Retries(f) == TRUE

\* recoverDeadEnvelope refreshed the sender's key: the envelope may open now.
RetryUnwrap(f) ==
    /\ step[f] = "recovering" /\ Retries(f)
    /\ \E now \in {"good", "dead"} : answer' = [answer EXCEPT ![f] = now]
    /\ Advance(f, "retrying")
    /\ UNCHANGED <<keys, pending, readers, server, dedup, session, crossed>>

\* The server was asked for a new wrap: it drops the dead envelope, and the
\* delivery that answers the request must not be dropped.
Requested(f) ==
    /\ step[f] \in {"recovering", "retrying"} /\ Retries(f)
    /\ Stamp(groupOf[f])
    /\ envelope' = IF envelope[groupOf[f]] = "dead" THEN [envelope EXCEPT ![groupOf[f]] = "none"]
                   ELSE envelope
    /\ dedup' = dedup \ {groupOf[f]}
    /\ Reject(f)
    /\ UNCHANGED <<deliveries, session, crossed>>

\* Any other outcome; ENVELOPE_CHANGED alone clears the dedup slot.
NotRecovered(f) ==
    /\ step[f] \in {"recovering", "retrying"} /\ Retries(f)
    /\ dedup' \in {dedup, dedup \ {groupOf[f]}}
    /\ Reject(f)
    /\ UNCHANGED <<keys, pending, server, session, crossed>>

\* The readers get what the cache holds by now, if anything.
Settle(f) ==
    /\ step[f] = "processed"
    /\ \/ /\ groupOf[f] \in cached
          /\ EndFetch(f)
          /\ StopWaiting(f)
          /\ holding' = [r \in Readers |-> IF r \in Waiting(f) THEN "current" ELSE holding[r]]
          /\ UNCHANGED reading
       \/ groupOf[f] \notin cached /\ Reject(f)
    /\ UNCHANGED <<keys, pending, server, dedup, session, crossed>>

-----------------------------------------------------------------------------
(* What readers do with a key, and the other writers of the cache.          *)

Release(r) ==
    /\ reading' = [reading EXCEPT ![r] = None]
    /\ UNCHANGED awaiting

\* wrapKeyForMember, after it awaited the member's identity key.
UseKey(r) ==
    /\ holding[r] # "nothing"
    /\ Release(r)
    /\ holding' = [holding EXCEPT ![r] = "nothing"]
    /\ UNCHANGED <<keys, pending, fetches, server, dedup, session, crossed>>

\* Mutant of Forget: the key is dropped from the database only.
ForgetDatabase(g) == UNCHANGED <<cached, unsaved>> /\ stored' = stored \ {g}

\* invalidateGroupKey: a database that cannot be written keeps the key.
Forget(g) ==
    /\ cached' = cached \ {g} /\ unsaved' = unsaved \ {g}
    /\ stored' \in {stored, stored \ {g}}

\* The database could not forget the key, and the read after it finds it again.
FindsAgain(g) ==
    /\ g \in stored \ pending
    /\ cached' = cached \cup {g} /\ unsaved' = unsaved \ {g} /\ marked' = marked \ {g}
    /\ UNCHANGED stored

\* decryptWithRetry: a message does not decrypt.  invalidateGroupKey drops the
\* group's key of the moment, zeroing a cached one, and the key is read again:
\* with nothing left to find here, that read is gated or awaits a request.
DecryptFails(r) ==
    LET g == reading[r]
        Left(state) == [Held({g} \cap cached, "zeroed") EXCEPT ![r] = state] IN
    /\ holding[r] # "nothing"
    /\ \/ /\ FindsAgain(g)
          /\ holding' = Left("current")
          /\ UNCHANGED <<reading, awaiting, fetches>>
       \/ /\ Forget(g)
          /\ holding' = Left("nothing")
          /\ \/ g \in pending /\ marked' = marked \cup {g} /\ Release(r) /\ UNCHANGED fetches
             \/ g \notin pending /\ (Joins(r, g) \/ Asks(r, g)) /\ UNCHANGED <<marked, reading>>
    /\ UNCHANGED <<pending, server, dedup, session, crossed>>

\* loadConversations opens an envelope; createOrbit, startDm, joinOrbit and
\* signup persist a key made here or taken from an invite after a request of
\* theirs, whatever the session has become by then.
LoadKey(g) ==
    /\ Persist(g)
    /\ UNCHANGED <<pending, fetches, reading, awaiting, server, dedup, session, crossed>>

\* selfWrapIfNeeded caches the stored key and uploads it; the server refuses
\* a slot that is taken, and only an accepted upload evicts the stamp.
SelfWrap(g) ==
    /\ session = "in" /\ g \in stored
    /\ cached' = cached \cup {g} /\ unsaved' = unsaved \ {g} /\ marked' = marked \ {g}
    /\ holding' = Held({g}, "former")
    /\ UNCHANGED <<stored, pending, fetches, reading, awaiting, server, dedup, session, crossed>>

SelfWrapAccepted(g) ==
    /\ session = "in" /\ g \in stored /\ envelope[g] = "none"
    /\ envelope' = [envelope EXCEPT ![g] = "good"]
    /\ pending' = pending \ {g}
    /\ UNCHANGED <<keys, fetches, readers, deliveries, dedup, session, crossed>>

-----------------------------------------------------------------------------
\* clearGroupKeyCache and clearContentCryptoInflight.
ClearSession ==
    /\ cached' = {} /\ unsaved' = {} /\ marked' = {} /\ pending' = {}
    /\ holding' = Held(cached, "zeroed")
    /\ inflight' = NoFetches
    /\ crossed' = (Running # {})
    /\ UNCHANGED <<step, groupOf, reading, awaiting>>

\* localWipe of a logout: the database keeps its keys.
Logout ==
    /\ session = "in"
    /\ session' = "out"
    /\ ClearSession
    /\ dedup' = {}
    /\ UNCHANGED <<stored, answer, server>>

\* fullCryptoWipe of a key recovery: the old envelopes are worthless.  Its
\* transaction may roll back; the caches are cleared by then.
KeyWipe ==
    /\ session = "in"
    /\ session' = "rekeying"
    /\ ClearSession
    /\ stored' \in {stored, {}} /\ dedup' = {}
    /\ envelope' = [g \in Groups |-> "none"]
    /\ answer' = [f \in Fetches |-> IF answer[f] = "good" THEN "dead" ELSE answer[f]]
    /\ UNCHANGED deliveries

\* Login, or new identity keys.
SessionReady ==
    /\ session # "in"
    /\ session' = "in"
    /\ UNCHANGED <<keys, pending, fetches, readers, server, dedup, crossed>>

\* The process dies; the database and the clock's blob survive.
Restart ==
    /\ cached' = {} /\ unsaved' = {} /\ pending' = {} /\ dedup' = {} /\ crossed' = FALSE
    /\ inflight' = NoFetches
    /\ step' = [f \in Fetches |-> "idle"] /\ groupOf' = [f \in Fetches |-> None]
    /\ answer' = [f \in Fetches |-> "none"]
    /\ reading' = [r \in Readers |-> None] /\ awaiting' = [r \in Readers |-> None]
    /\ holding' = [r \in Readers |-> "nothing"]
    /\ UNCHANGED <<stored, marked, server, session>>

\* A member wraps the key, to this device's identity key or to an old one.
MemberWraps(g) ==
    /\ envelope[g] \in {"none", "unsigned"} /\ g \notin deliveries
    /\ \E e \in {"good", "dead"} : envelope' = [envelope EXCEPT ![g] = e]
    /\ deliveries' = deliveries \cup {g}
    /\ UNCHANGED <<keys, pending, fetches, readers, dedup, session, crossed>>

\* The socket was down when the event was sent.
LoseDelivery(g) ==
    /\ g \in deliveries
    /\ deliveries' = deliveries \ {g}
    /\ UNCHANGED <<keys, pending, fetches, readers, envelope, dedup, session, crossed>>

\* Thirty seconds pass.
StampExpires(g) ==
    /\ g \in pending
    /\ pending' = pending \ {g}
    /\ UNCHANGED <<keys, fetches, readers, server, dedup, session, crossed>>

DedupExpires(g) ==
    /\ g \in dedup
    /\ dedup' = dedup \ {g}
    /\ UNCHANGED <<keys, pending, fetches, readers, server, session, crossed>>

-----------------------------------------------------------------------------
FetchStep(f) ==
    \/ Answered(f) \/ RequestFails(f) \/ NoEnvelope(f) \/ NoSender(f) \/ ResolveSender(f)
    \/ Unwrap(f) \/ UnwrapFails(f) \/ RetryUnwrap(f) \/ Requested(f) \/ NotRecovered(f) \/ Settle(f)

GroupStep(g) ==
    \/ DropDelivery(g) \/ LoadKey(g) \/ SelfWrap(g) \/ SelfWrapAccepted(g)
    \/ MemberWraps(g) \/ LoseDelivery(g) \/ StampExpires(g) \/ DedupExpires(g)

ReaderStep(r) ==
    \/ UseKey(r) \/ DecryptFails(r)
    \/ \E g \in Groups : Read(r, g) \/ HandleDelivery(r, g)

SessionStep == Logout \/ KeyWipe \/ SessionReady \/ Restart

Next ==
    \/ \E f \in Fetches : FetchStep(f)
    \/ \E g \in Groups : GroupStep(g)
    \/ \E r \in Readers : ReaderStep(r)
    \/ SessionStep

Spec == Init /\ [][Next]_vars

(* Every request ends: the API client times it out, and what it awaits     *)
(* afterwards are requests of the same client.                             *)
FairSpec == Spec /\ \A f \in Fetches : WF_vars(FetchStep(f))

-----------------------------------------------------------------------------
(***************************************************************************)
(* Properties.                                                             *)
(***************************************************************************)

KeysTypeOK ==
    /\ cached \subseteq Groups /\ stored \subseteq Groups /\ marked \subseteq Groups
    /\ unsaved \subseteq cached
    /\ pending \subseteq Groups /\ dedup \subseteq Groups /\ deliveries \subseteq Groups
    /\ envelope \in [Groups -> Envelopes]

FetchesTypeOK ==
    /\ inflight \in [Groups -> Fetches \cup {None}]
    /\ step \in [Fetches -> Steps]
    /\ groupOf \in [Fetches -> Groups \cup {None}]
    /\ \A f \in Fetches : step[f] = "idle" <=> groupOf[f] = None
    /\ answer \in [Fetches -> Envelopes]

ReadersTypeOK ==
    /\ reading \in [Readers -> Groups \cup {None}]
    /\ awaiting \in [Readers -> Fetches \cup {None}]
    /\ holding \in [Readers -> Holdings]

SessionTypeOK == session \in {"in", "out", "rekeying"} /\ crossed \in BOOLEAN

TypeOK == KeysTypeOK /\ FetchesTypeOK /\ ReadersTypeOK /\ SessionTypeOK

\* A reader is idle, waits for a running request of its group, or holds a key:
\* no wipe, rejection or restart leaves one waiting for a request that is gone.
ReadersServed ==
    \A r \in Readers :
        \/ reading[r] = None /\ awaiting[r] = None /\ holding[r] = "nothing"
        \/ reading[r] # None /\ awaiting[r] = None /\ holding[r] # "nothing"
        \/ /\ reading[r] # None /\ holding[r] = "nothing"
           /\ awaiting[r] \in Running /\ groupOf[awaiting[r]] = reading[r]

\* What later readers will share is a request of that group that still runs,
\* although requests from before a wipe end in the middle of the next session.
SharedFetchRuns ==
    \A g \in Groups : inflight[g] # None => inflight[g] \in Running /\ groupOf[inflight[g]] = g

\* "Concurrent calls for the same groupId coalesce onto a single request", as
\* long as no request was in progress at a wipe.
OneFetchPerGroup == ~crossed => \A e, f \in Running : groupOf[e] = groupOf[f] => e = f

\* A key in memory is in the database too, unless its own write failed ("key is
\* still in memory cache"): no invalidation, wipe or self-wrap, failing or not,
\* leaves a key that was written in memory only, for a restart to lose.
CachedIsSaved == cached \ unsaved \subseteq stored

\* Every reader is answered: a recovery that would wait for its own request
\* ("would self-await and hang forever") keeps its readers waiting.
ReadersAnswered == \A r \in Readers : awaiting[r] # None ~> awaiting[r] = None

\* "A group with a usable key has no entry."
MarkedOnlyWhileWaiting == cached \cap marked = {}

\* wrapKeyForMember "ECIES-wraps the group key": the array a reader is going
\* to wrap or encrypt with has not been zeroed under it while signed in.
KeysInUseIntact == \A r \in Readers : holding[r] = "zeroed" => session # "in"

\* "evictPendingCache above is what lets this fetch reach the server": a
\* delivery that finds no key waits for an answer given after the delivery.
DeliveryReachesServer ==
    [][\A g \in deliveries, r \in Readers :
         HandleDelivery(r, g) /\ awaiting'[r] # None =>
             LET f == awaiting'[r] IN step'[f] = "asked" \/ answer'[f] = envelope[g]]_vars
=============================================================================
