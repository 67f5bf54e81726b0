--------------------------- MODULE GroupKeyProofs ---------------------------
(***************************************************************************)
(* Proofs about GroupKey, for every set of groups, requests and readers.   *)
(***************************************************************************)
EXTENDS GroupKey, TLAPS

-----------------------------------------------------------------------------
(* What a step does to the requests in progress.                            *)

\* A reader starts a request for a group that has none.
Begins(g, f) ==
    /\ inflight[g] = None /\ f \notin Running
    /\ inflight' = [inflight EXCEPT ![g] = f]
    /\ step' = [step EXCEPT ![f] = "asked"]
    /\ groupOf' = [groupOf EXCEPT ![f] = g]

\* A suspended request ends, or reaches its next await.
Continues(f) ==
    /\ f \in Running
    /\ EndFetch(f) \/ \E next \in Steps \ {"idle"} : Advance(f, next)

Stays == UNCHANGED <<inflight, step, groupOf>>

\* A reader that holds an array reads a group and waits for nothing.
LEMMA ReaderHolds ==
    ASSUME TypeOK, ReadersServed, NEW r \in Readers, holding[r] # "nothing"
    PROVE  reading[r] \in Groups /\ awaiting[r] = None
BY DEF TypeOK, ReadersTypeOK, ReadersServed

\* Every step either leaves the requests alone, begins or continues one,
\* forgets which are shared, or is the end of the process.
LEMMA StepKinds ==
    ASSUME TypeOK, ReadersServed, [Next]_vars
    PROVE  \/ Stays /\ UNCHANGED crossed
           \/ (\E g \in Groups, f \in Fetches : Begins(g, f)) /\ UNCHANGED crossed
           \/ (\E f \in Fetches : Continues(f)) /\ UNCHANGED crossed
           \/ ClearSession
           \/ Restart
<1> DEFINE Still == Stays /\ UNCHANGED crossed
           Begin == (\E g \in Groups, f \in Fetches : Begins(g, f)) /\ UNCHANGED crossed
           Continue == (\E f \in Fetches : Continues(f)) /\ UNCHANGED crossed
<1>1. CASE UNCHANGED vars
  <2>1. Still
    BY <1>1 DEF vars, fetches, Stays
  <2> QED
    BY <2>1
<1>2. ASSUME NEW f \in Fetches, FetchStep(f) PROVE Continue
  <2>1. f \in Running /\ UNCHANGED crossed
    BY <1>2 DEF FetchStep, Answered, RequestFails, NoEnvelope, NoSender, ResolveSender, Unwrap,
                UnwrapFails, RetryUnwrap, Requested, NotRecovered, Settle, Running
  <2>2. EndFetch(f) \/ \E next \in Steps \ {"idle"} : Advance(f, next)
    BY <1>2 DEF FetchStep, Answered, RequestFails, NoEnvelope, NoSender, ResolveSender, Unwrap,
                UnwrapFails, RetryUnwrap, Requested, NotRecovered, Settle, Reject, Steps
  <2> QED
    BY <2>1, <2>2 DEF Continues
<1>3. ASSUME NEW g \in Groups, GroupStep(g) PROVE Still
  BY <1>3 DEF GroupStep, DropDelivery, LoadKey, SelfWrap, SelfWrapAccepted, MemberWraps,
              LoseDelivery, StampExpires, DedupExpires, fetches, Stays
<1>4. ASSUME NEW r \in Readers, NEW g \in Groups, NEW stamps, GetOrFetch(r, g, stamps), UNCHANGED crossed
      PROVE Still \/ Begin
  BY <1>4 DEF GetOrFetch, Cached, Gated, FromDatabase, FromServer, Joins, Asks, Shares, Begins, fetches, Stays
<1>5. ASSUME NEW r \in Readers, ReaderStep(r) PROVE Still \/ Begin
  <2>1. CASE UseKey(r)
    BY <2>1 DEF UseKey, fetches, Stays
  <2>2. CASE DecryptFails(r)
    <3>1. CASE UNCHANGED fetches
      BY <2>2, <3>1 DEF DecryptFails, fetches, Stays
    <3>2. CASE Asks(r, reading[r]) /\ reading[r] \in Groups
      BY <2>2, <3>2 DEF DecryptFails, Asks, Shares, Begins
    <3>3. reading[r] \in Groups
      BY <2>2, ReaderHolds DEF DecryptFails
    <3> QED
      BY <2>2, <3>1, <3>2, <3>3 DEF DecryptFails, Joins
  <2>3. ASSUME NEW g \in Groups, Read(r, g) \/ HandleDelivery(r, g) PROVE Still \/ Begin
    BY <2>3, <1>4 DEF Read, HandleDelivery
  <2> QED
    BY <1>5, <2>1, <2>2, <2>3 DEF ReaderStep
<1>6. ASSUME SessionStep PROVE Still \/ ClearSession \/ Restart
  BY <1>6 DEF SessionStep, Logout, KeyWipe, SessionReady, fetches, Stays
<1> QED
  BY <1>1, <1>2, <1>3, <1>5, <1>6 DEF Next

-----------------------------------------------------------------------------
(* Types of the requests.                                                   *)

\* An ended request is idle and belongs to no group; a continued one still runs.
LEMMA FetchesType ==
    ASSUME TypeOK, ReadersServed, [Next]_vars
    PROVE  /\ inflight' \in [Groups -> Fetches \cup {None}]
           /\ step' \in [Fetches -> Steps]
           /\ groupOf' \in [Fetches -> Groups \cup {None}]
           /\ \A f \in Fetches : step'[f] = "idle" <=> groupOf'[f] = None
<1> USE NoneAssumption DEF TypeOK, FetchesTypeOK
<1>1. CASE Stays
  BY <1>1 DEF Stays
<1>2. ASSUME NEW g \in Groups, NEW f \in Fetches, Begins(g, f)
      PROVE  /\ inflight' \in [Groups -> Fetches \cup {None}]
             /\ step' \in [Fetches -> Steps]
             /\ groupOf' \in [Fetches -> Groups \cup {None}]
             /\ \A e \in Fetches : step'[e] = "idle" <=> groupOf'[e] = None
  BY <1>2 DEF Begins, Steps
<1>3. ASSUME NEW f \in Fetches, Continues(f)
      PROVE  /\ inflight' \in [Groups -> Fetches \cup {None}]
             /\ step' \in [Fetches -> Steps]
             /\ groupOf' \in [Fetches -> Groups \cup {None}]
             /\ \A e \in Fetches : step'[e] = "idle" <=> groupOf'[e] = None
  <2>1. CASE EndFetch(f)
    BY <2>1 DEF EndFetch, Steps
  <2>2. ASSUME NEW next \in Steps \ {"idle"}, Advance(f, next)
        PROVE  /\ step' \in [Fetches -> Steps]
               /\ \A e \in Fetches : step'[e] = "idle" <=> groupOf'[e] = None
    BY <1>3, <2>2 DEF Advance, Continues, Running
  <2> QED
    BY <1>3, <2>1, <2>2 DEF Continues, Advance
<1>4. CASE ClearSession
  BY <1>4 DEF ClearSession, NoFetches
<1>5. CASE Restart
  BY <1>5 DEF Restart, NoFetches, Steps
<1> QED
  BY <1>1, <1>2, <1>3, <1>4, <1>5, StepKinds

\* An answer is an envelope.
LEMMA AnswersType ==
    ASSUME TypeOK, [Next]_vars
    PROVE  answer' \in [Fetches -> Envelopes]
<1> USE DEF TypeOK, FetchesTypeOK, Envelopes
<1>1. CASE UNCHANGED answer
  BY <1>1
<1>2. ASSUME NEW f \in Fetches, FetchStep(f) PROVE answer' \in [Fetches -> Envelopes]
  <2>1. CASE Answered(f)
    <3>1. groupOf[f] \in Groups
      BY <2>1 DEF Answered
    <3>2. envelope[groupOf[f]] \in Envelopes
      BY <3>1 DEF KeysTypeOK
    <3> QED
      BY <2>1, <3>2 DEF Answered
  <2>2. CASE RetryUnwrap(f)
    BY <2>2 DEF RetryUnwrap
  <2>3. CASE EndFetch(f)
    BY <2>3 DEF EndFetch
  <2> QED
    BY <1>1, <1>2, <2>1, <2>2, <2>3
    DEF FetchStep, RequestFails, NoEnvelope, NoSender, ResolveSender, Unwrap, UnwrapFails,
        Requested, NotRecovered, Settle, Reject
<1>3. ASSUME NEW r \in Readers, ReaderStep(r) PROVE UNCHANGED answer
  BY <1>3 DEF ReaderStep, Read, HandleDelivery, GetOrFetch, Cached, Gated, FromDatabase, FromServer,
              Joins, Asks, UseKey, DecryptFails, fetches
<1>4. ASSUME NEW g \in Groups, GroupStep(g) PROVE UNCHANGED answer
  BY <1>4 DEF GroupStep, DropDelivery, LoadKey, SelfWrap, SelfWrapAccepted, MemberWraps,
              LoseDelivery, StampExpires, DedupExpires, fetches
<1>5. ASSUME SessionStep PROVE answer' \in [Fetches -> Envelopes]
  BY <1>5 DEF SessionStep, Logout, KeyWipe, SessionReady, Restart, fetches
<1> QED
  BY <1>1, <1>2, <1>3, <1>4, <1>5 DEF Next, vars, fetches

-----------------------------------------------------------------------------
(* Types of the keys and of the session.                                    *)

LEMMA KeysType ==
    ASSUME TypeOK, ReadersServed, [Next]_vars
    PROVE  KeysTypeOK'
<1> USE DEF KeysTypeOK
<1>1. CASE UNCHANGED vars
  BY <1>1 DEF vars, keys, server, TypeOK
<1>2. ASSUME NEW f \in Fetches, FetchStep(f) PROVE KeysTypeOK'
  <2>1. groupOf[f] \in Groups
    BY <1>2 DEF FetchStep, Answered, RequestFails, NoEnvelope, NoSender, ResolveSender, Unwrap,
                UnwrapFails, RetryUnwrap, Requested, NotRecovered, Settle, TypeOK, FetchesTypeOK
  <2>2. CASE NoEnvelope(f) \/ NoSender(f) \/ NotRecovered(f)
    BY <2>1, <2>2 DEF NoEnvelope, NoSender, NotRecovered, Stamp, server, keys, TypeOK
  <2>3. CASE Requested(f)
    BY <2>1, <2>3 DEF Requested, Stamp, Envelopes, TypeOK
  <2>4. CASE Unwrap(f)
    BY <2>1, <2>4 DEF Unwrap, Persist, server, TypeOK
  <2>5. CASE UNCHANGED <<keys, pending, server, dedup>>
    BY <2>5 DEF keys, server, TypeOK
  <2> QED
    BY <1>2, <2>2, <2>3, <2>4, <2>5
    DEF FetchStep, Answered, RequestFails, ResolveSender, UnwrapFails, RetryUnwrap, Settle
<1>3. ASSUME NEW g \in Groups, GroupStep(g) PROVE KeysTypeOK'
  <2>1. CASE LoadKey(g) \/ SelfWrap(g)
    BY <2>1 DEF LoadKey, SelfWrap, Persist, server, TypeOK
  <2>2. CASE SelfWrapAccepted(g) \/ MemberWraps(g)
    BY <2>2 DEF SelfWrapAccepted, MemberWraps, keys, Envelopes, TypeOK
  <2>3. CASE DropDelivery(g) \/ LoseDelivery(g) \/ StampExpires(g) \/ DedupExpires(g)
    BY <2>3 DEF DropDelivery, LoseDelivery, StampExpires, DedupExpires, keys, server, TypeOK
  <2> QED
    BY <1>3, <2>1, <2>2, <2>3 DEF GroupStep
<1>4. ASSUME NEW r \in Readers, NEW g \in Groups, NEW stamps, GetOrFetch(r, g, stamps)
      PROVE  /\ cached' \subseteq Groups /\ stored' \subseteq Groups /\ marked' \subseteq Groups
             /\ unsaved' \subseteq cached'
  BY <1>4 DEF GetOrFetch, Cached, Gated, FromDatabase, FromServer, keys, TypeOK
<1>5. ASSUME NEW r \in Readers, ReaderStep(r) PROVE KeysTypeOK'
  <2>1. CASE UseKey(r)
    BY <2>1 DEF UseKey, keys, server, TypeOK
  <2>2. CASE DecryptFails(r)
    <3>1. reading[r] \in Groups
      BY <2>2, ReaderHolds DEF DecryptFails
    <3> QED
      BY <2>2, <3>1 DEF DecryptFails, FindsAgain, Forget, server, TypeOK
  <2>3. ASSUME NEW g \in Groups, Read(r, g) PROVE KeysTypeOK'
    BY <2>3, <1>4 DEF Read, server, TypeOK
  <2>4. ASSUME NEW g \in Groups, HandleDelivery(r, g) PROVE KeysTypeOK'
    BY <2>4, <1>4 DEF HandleDelivery, TypeOK
  <2> QED
    BY <1>5, <2>1, <2>2, <2>3, <2>4 DEF ReaderStep
<1>6. ASSUME SessionStep PROVE KeysTypeOK'
  BY <1>6 DEF SessionStep, Logout, KeyWipe, SessionReady, Restart, ClearSession, keys, server, Envelopes, TypeOK
<1> QED
  BY <1>1, <1>2, <1>3, <1>5, <1>6 DEF Next

LEMMA SessionType ==
    ASSUME TypeOK, ReadersServed, [Next]_vars
    PROVE  SessionTypeOK'
<1>1. crossed' \in BOOLEAN
  <2>1. CASE UNCHANGED crossed
    BY <2>1 DEF TypeOK, SessionTypeOK
  <2>2. CASE ClearSession
    BY <2>2, Zenon DEF ClearSession
  <2>3. CASE Restart
    BY <2>3 DEF Restart
  <2> QED
    BY <2>1, <2>2, <2>3, StepKinds
<1>2. session' \in {"in", "out", "rekeying"}
  <2>1. CASE UNCHANGED session
    BY <2>1 DEF TypeOK, SessionTypeOK
  <2>2. ASSUME SessionStep PROVE session' \in {"in", "out", "rekeying"}
    BY <2>2 DEF SessionStep, Logout, KeyWipe, SessionReady, Restart, TypeOK, SessionTypeOK
  <2>3. ASSUME NEW f \in Fetches, FetchStep(f) PROVE UNCHANGED session
    BY <2>3 DEF FetchStep, Answered, RequestFails, NoEnvelope, NoSender, ResolveSender, Unwrap,
                UnwrapFails, RetryUnwrap, Requested, NotRecovered, Settle
  <2>4. ASSUME NEW g \in Groups, GroupStep(g) PROVE UNCHANGED session
    BY <2>4 DEF GroupStep, DropDelivery, LoadKey, SelfWrap, SelfWrapAccepted, MemberWraps,
                LoseDelivery, StampExpires, DedupExpires
  <2>5. ASSUME NEW r \in Readers, ReaderStep(r) PROVE UNCHANGED session
    BY <2>5 DEF ReaderStep, Read, HandleDelivery, UseKey, DecryptFails
  <2> QED
    BY <2>1, <2>2, <2>3, <2>4, <2>5 DEF Next, vars
<1> QED
  BY <1>1, <1>2 DEF SessionTypeOK

-----------------------------------------------------------------------------
(* Readers.                                                                 *)

\* Replacing or zeroing arrays takes none away from its reader.
LEMMA HeldKeeps ==
    ASSUME ReadersTypeOK, NEW gs, NEW state \in Holdings \ {"nothing"}
    PROVE  /\ Held(gs, state) \in [Readers -> Holdings]
           /\ \A r \in Readers : Held(gs, state)[r] = "nothing" <=> holding[r] = "nothing"
BY DEF ReadersTypeOK, Held

\* A step that leaves the readers where they are and the requests they wait for
\* running keeps them served.
LEMMA StayServed ==
    ASSUME ReadersTypeOK, ReadersServed, UNCHANGED <<reading, awaiting>>,
           holding' \in [Readers -> Holdings],
           \A r \in Readers : holding'[r] = "nothing" <=> holding[r] = "nothing",
           \A f \in Running : f \in Running' /\ groupOf'[f] = groupOf[f]
    PROVE  ReadersTypeOK' /\ ReadersServed'
BY DEF ReadersTypeOK, ReadersServed

\* Who joins or starts a request waits for a running one of its group.
LEMMA AwaitsFetch ==
    ASSUME TypeOK, SharedFetchRuns, NEW r \in Readers, NEW g \in Groups, Joins(r, g) \/ Asks(r, g)
    PROVE  \E f \in Fetches :
             /\ awaiting' = [awaiting EXCEPT ![r] = f]
             /\ f \in Running' /\ groupOf'[f] = g
             /\ \A e \in Running : e \in Running' /\ groupOf'[e] = groupOf[e]
<1>1. CASE Joins(r, g)
  <2>1. inflight[g] \in Fetches /\ inflight[g] \in Running /\ groupOf[inflight[g]] = g
    BY <1>1 DEF Joins, Shares, SharedFetchRuns, Running
  <2> QED
    BY <1>1, <2>1 DEF Joins, Await, fetches, Running
<1>2. CASE Asks(r, g)
  BY <1>2 DEF Asks, Await, TypeOK, FetchesTypeOK, Running
<1> QED
  BY <1>1, <1>2

\* A reader whose key did not decrypt gives up or waits for a request.
LEMMA DecryptServed ==
    ASSUME TypeOK, ReadersServed, SharedFetchRuns, NEW r \in Readers, DecryptFails(r)
    PROVE  ReadersTypeOK' /\ ReadersServed'
<1> USE DEF TypeOK
<1> DEFINE g == reading[r]
<1>1. g \in Groups /\ awaiting[r] = None
  BY ReaderHolds DEF DecryptFails
<1>2. PICK zeroed : zeroed = Held({g} \cap cached, "zeroed")
  OBVIOUS
<1>3. /\ zeroed \in [Readers -> Holdings]
      /\ \A q \in Readers : zeroed[q] = "nothing" <=> holding[q] = "nothing"
  BY <1>2, HeldKeeps DEF Holdings
<1>7. CASE /\ holding' = [zeroed EXCEPT ![r] = "current"]
           /\ UNCHANGED <<reading, awaiting, fetches>>
  <2>1. /\ holding' \in [Readers -> Holdings]
        /\ \A q \in Readers : holding'[q] = "nothing" <=> holding[q] = "nothing"
    BY <1>3, <1>7 DEF DecryptFails, Holdings
  <2>2. UNCHANGED <<reading, awaiting>> /\ \A f \in Running : f \in Running' /\ groupOf'[f] = groupOf[f]
    BY <1>7 DEF fetches, Running
  <2> QED
    BY <2>1, <2>2, StayServed
<1>8. SUFFICES ASSUME holding' = [zeroed EXCEPT ![r] = "nothing"],
                      \/ Release(r) /\ UNCHANGED fetches
                      \/ (Joins(r, g) \/ Asks(r, g)) /\ UNCHANGED reading
               PROVE  ReadersTypeOK' /\ ReadersServed'
  BY <1>2, <1>7 DEF DecryptFails
<1>4. holding' = [zeroed EXCEPT ![r] = "nothing"]
  BY <1>8
<1>5. CASE Release(r) /\ UNCHANGED fetches
  BY <1>1, <1>3, <1>4, <1>5 DEF Release, fetches, Running, ReadersTypeOK, ReadersServed, Holdings
<1>6. CASE (Joins(r, g) \/ Asks(r, g)) /\ UNCHANGED reading
  <2>1. PICK f \in Fetches :
          /\ awaiting' = [awaiting EXCEPT ![r] = f]
          /\ f \in Running' /\ groupOf'[f] = g
          /\ \A e \in Running : e \in Running' /\ groupOf'[e] = groupOf[e]
    BY <1>1, <1>6, AwaitsFetch
  <2> QED
    BY <1>1, <1>3, <1>4, <1>6, <2>1, NoneAssumption DEF ReadersTypeOK, ReadersServed, Holdings
<1> QED
  BY <1>5, <1>6, <1>8

\* A call of getOrFetchGroupKey leaves its reader idle, waiting or holding.
LEMMA ReadServed ==
    ASSUME TypeOK, ReadersServed, SharedFetchRuns, NEW r \in Readers, NEW g \in Groups,
           NEW stamps, GetOrFetch(r, g, stamps)
    PROVE  ReadersTypeOK' /\ ReadersServed'
<1> USE DEF TypeOK
<1>1. reading[r] = None /\ awaiting[r] = None /\ holding[r] = "nothing"
  BY DEF GetOrFetch, ReadersServed
<1>2. CASE Cached(r, g) \/ FromDatabase(r, g, stamps)
  <2>1. Hold(r, g) /\ UNCHANGED fetches
    BY <1>2 DEF Cached, FromDatabase
  <2>2. ReadersTypeOK'
    BY <2>1 DEF Hold, ReadersTypeOK, Holdings
  <2>3. ReadersServed'
    BY <1>1, <2>1, NoneAssumption DEF Hold, ReadersTypeOK, ReadersServed, fetches, Running
  <2> QED
    BY <2>2, <2>3
<1>3. CASE Gated(g, stamps)
  BY <1>3 DEF Gated, readers, fetches, ReadersTypeOK, ReadersServed, Running
<1>4. CASE FromServer(r, g, stamps)
  <2>1. UNCHANGED holding /\ reading' = [reading EXCEPT ![r] = g]
    BY <1>4 DEF FromServer
  <2>2. PICK f \in Fetches :
          /\ awaiting' = [awaiting EXCEPT ![r] = f]
          /\ f \in Running' /\ groupOf'[f] = g
          /\ \A e \in Running : e \in Running' /\ groupOf'[e] = groupOf[e]
    BY <1>4, AwaitsFetch DEF FromServer
  <2>3. ReadersTypeOK'
    BY <2>1, <2>2 DEF ReadersTypeOK
  <2>4. ReadersServed'
    BY <1>1, <2>1, <2>2, NoneAssumption DEF ReadersTypeOK, ReadersServed
  <2> QED
    BY <2>3, <2>4
<1> QED
  BY <1>2, <1>3, <1>4 DEF GetOrFetch

\* The requests readers wait for still run after a step that ends none of them.
LEMMA FetchEnds ==
    ASSUME TypeOK, NEW f \in Running, EndFetch(f), NEW e \in Running, e # f
    PROVE  e \in Running' /\ groupOf'[e] = groupOf[e]
BY DEF EndFetch, Running, TypeOK, FetchesTypeOK

LEMMA FetchAdvances ==
    ASSUME TypeOK, NEW f \in Running, NEW next \in Steps \ {"idle"}, Advance(f, next), NEW e \in Running
    PROVE  e \in Running' /\ groupOf'[e] = groupOf[e]
BY DEF Advance, Running, TypeOK, FetchesTypeOK

\* A rejection sends its readers away.
LEMMA RejectServed ==
    ASSUME TypeOK, ReadersServed, NEW f \in Running, Reject(f)
    PROVE  ReadersTypeOK' /\ ReadersServed'
<1>1. \A e \in Running : e # f => e \in Running' /\ groupOf'[e] = groupOf[e]
  BY FetchEnds DEF Reject
<1>2. ReadersTypeOK'
  BY DEF Reject, StopWaiting, TypeOK, ReadersTypeOK
<1>3. f # None
  BY NoneAssumption DEF Running
<1>4. ASSUME NEW r \in Readers, awaiting[r] = f
      PROVE  reading'[r] = None /\ awaiting'[r] = None /\ holding'[r] = "nothing"
  BY <1>3, <1>4 DEF Reject, StopWaiting, Waiting, ReadersServed
<1>5. ASSUME NEW r \in Readers, awaiting[r] # f
      PROVE  reading'[r] = reading[r] /\ awaiting'[r] = awaiting[r] /\ holding'[r] = holding[r]
  BY <1>5 DEF Reject, StopWaiting, Waiting
<1>6. ReadersServed'
  BY <1>1, <1>4, <1>5 DEF ReadersServed
<1> QED
  BY <1>2, <1>6

\* A settled request hands its readers the cached array.
LEMMA SettleServed ==
    ASSUME TypeOK, ReadersServed, NEW f \in Running, EndFetch(f), StopWaiting(f), UNCHANGED reading,
           holding' = [r \in Readers |-> IF r \in Waiting(f) THEN "current" ELSE holding[r]]
    PROVE  ReadersTypeOK' /\ ReadersServed'
<1>1. \A e \in Running : e # f => e \in Running' /\ groupOf'[e] = groupOf[e]
  BY FetchEnds
<1>2. ReadersTypeOK'
  BY DEF StopWaiting, TypeOK, ReadersTypeOK, Holdings
<1>3. f # None
  BY NoneAssumption DEF Running
<1>4. ASSUME NEW r \in Readers, awaiting[r] = f
      PROVE  reading'[r] # None /\ awaiting'[r] = None /\ holding'[r] = "current"
  BY <1>3, <1>4 DEF StopWaiting, Waiting, ReadersServed
<1>5. ASSUME NEW r \in Readers, awaiting[r] # f
      PROVE  reading'[r] = reading[r] /\ awaiting'[r] = awaiting[r] /\ holding'[r] = holding[r]
  BY <1>5 DEF StopWaiting, Waiting
<1>6. ReadersServed'
  BY <1>1, <1>4, <1>5 DEF ReadersServed
<1> QED
  BY <1>2, <1>6

\* Every step leaves every reader idle, waiting for a running request, or holding.
LEMMA ReadersStep ==
    ASSUME TypeOK, ReadersServed, SharedFetchRuns, [Next]_vars
    PROVE  ReadersTypeOK' /\ ReadersServed'
<1> DEFINE Same == \A f \in Running : f \in Running' /\ groupOf'[f] = groupOf[f]
           Kept == /\ holding' \in [Readers -> Holdings]
                   /\ \A r \in Readers : holding'[r] = "nothing" <=> holding[r] = "nothing"
<1>a. ReadersTypeOK
  BY DEF TypeOK
<1>b. ASSUME UNCHANGED <<step, groupOf>> PROVE Same
  BY <1>b DEF Running
<1>c. ASSUME UNCHANGED holding PROVE Kept
  BY <1>a, <1>c DEF ReadersTypeOK
<1>d. ASSUME NEW gs, NEW state \in {"former", "zeroed"}, holding' = Held(gs, state) PROVE Kept
  BY <1>a, <1>d, HeldKeeps DEF Holdings
<1>1. CASE UNCHANGED vars
  <2>1. UNCHANGED <<reading, awaiting>> /\ Same /\ Kept
    BY <1>1, <1>b, <1>c DEF vars, fetches, readers
  <2> QED
    BY <2>1, <1>a, StayServed
<1>2. ASSUME NEW f \in Fetches, FetchStep(f) PROVE ReadersTypeOK' /\ ReadersServed'
  <2>1. f \in Running
    BY <1>2 DEF FetchStep, Answered, RequestFails, NoEnvelope, NoSender, ResolveSender, Unwrap,
                UnwrapFails, RetryUnwrap, Requested, NotRecovered, Settle, Running
  <2>2. CASE Reject(f)
    BY <2>1, <2>2, RejectServed
  <2>3. CASE EndFetch(f) /\ StopWaiting(f) /\ UNCHANGED reading
             /\ holding' = [r \in Readers |-> IF r \in Waiting(f) THEN "current" ELSE holding[r]]
    BY <2>1, <2>3, SettleServed
  <2>4. ASSUME NEW next \in Steps \ {"idle"}, Advance(f, next), UNCHANGED <<reading, awaiting>>, Kept
        PROVE  ReadersTypeOK' /\ ReadersServed'
    BY <2>1, <2>4, <1>a, FetchAdvances, StayServed
  <2>5. CASE Unwrap(f)
    <3>1. Kept
      BY <2>5, <1>d DEF Unwrap, Persist
    <3> QED
      BY <2>5, <2>4, <3>1 DEF Unwrap, Steps
  <2>6. CASE Answered(f) \/ RetryUnwrap(f)
    BY <2>6, <2>4, <1>c DEF Answered, RetryUnwrap, readers, Steps
  <2>7. CASE ResolveSender(f) \/ UnwrapFails(f)
    BY <2>7, <2>2, <2>4, <1>c DEF ResolveSender, UnwrapFails, readers, Steps
  <2> QED
    BY <1>2, <2>2, <2>3, <2>5, <2>6, <2>7
    DEF FetchStep, RequestFails, NoEnvelope, NoSender, Requested, NotRecovered, Settle
<1>3. ASSUME NEW g \in Groups, GroupStep(g) PROVE ReadersTypeOK' /\ ReadersServed'
  <2>1. UNCHANGED <<reading, awaiting, step, groupOf>>
    BY <1>3 DEF GroupStep, DropDelivery, LoadKey, SelfWrap, SelfWrapAccepted, MemberWraps,
                LoseDelivery, StampExpires, DedupExpires, fetches, readers
  <2>2. Kept
    BY <1>3, <1>c, <1>d DEF GroupStep, DropDelivery, LoadKey, Persist, SelfWrap, SelfWrapAccepted,
                MemberWraps, LoseDelivery, StampExpires, DedupExpires, readers
  <2> QED
    BY <2>1, <2>2, <1>a, <1>b, StayServed
<1>4. ASSUME NEW r \in Readers, ReaderStep(r) PROVE ReadersTypeOK' /\ ReadersServed'
  <2>1. CASE UseKey(r)
    BY <2>1 DEF UseKey, Release, fetches, Running, TypeOK, ReadersTypeOK, ReadersServed, Holdings
  <2>2. CASE DecryptFails(r)
    BY <2>2, DecryptServed
  <2>3. ASSUME NEW g \in Groups, Read(r, g) \/ HandleDelivery(r, g)
        PROVE  ReadersTypeOK' /\ ReadersServed'
    BY <2>3, ReadServed DEF Read, HandleDelivery
  <2> QED
    BY <1>4, <2>1, <2>2, <2>3 DEF ReaderStep
<1>5. ASSUME SessionStep PROVE ReadersTypeOK' /\ ReadersServed'
  <2>1. CASE ClearSession
    <3>1. UNCHANGED <<reading, awaiting, step, groupOf>> /\ Kept
      BY <2>1, <1>d DEF ClearSession
    <3> QED
      BY <3>1, <1>a, <1>b, StayServed
  <2>2. CASE SessionReady
    <3>1. UNCHANGED <<reading, awaiting, step, groupOf>> /\ Kept
      BY <2>2, <1>c DEF SessionReady, fetches, readers
    <3> QED
      BY <3>1, <1>a, <1>b, StayServed
  <2>3. CASE Restart
    BY <2>3 DEF Restart, ReadersTypeOK, ReadersServed, Holdings
  <2> QED
    BY <1>5, <2>1, <2>2, <2>3 DEF SessionStep, Logout, KeyWipe
<1> QED
  BY <1>1, <1>2, <1>3, <1>4, <1>5 DEF Next

-----------------------------------------------------------------------------
(* What readers share.                                                      *)

\* An ended request leaves the map; one that begins was not in it.
LEMMA SharedStep ==
    ASSUME TypeOK, ReadersServed, SharedFetchRuns, [Next]_vars
    PROVE  SharedFetchRuns'
<1> USE NoneAssumption DEF TypeOK, FetchesTypeOK, SharedFetchRuns
<1>1. CASE Stays
  BY <1>1 DEF Stays, Running
<1>2. ASSUME NEW g \in Groups, NEW f \in Fetches, Begins(g, f) PROVE SharedFetchRuns'
  BY <1>2 DEF Begins, Running
<1>3. ASSUME NEW f \in Fetches, Continues(f) PROVE SharedFetchRuns'
  <2>1. CASE EndFetch(f)
    <3>1. \A e \in Running : e # f => e \in Running' /\ groupOf'[e] = groupOf[e]
      BY <1>3, <2>1, FetchEnds DEF Continues
    <3>2. groupOf[f] \in Groups
      BY <1>3 DEF Continues, Running
    <3>3. ASSUME NEW g \in Groups, inflight'[g] # None
          PROVE  inflight'[g] = inflight[g] /\ inflight[g] # f
      BY <2>1, <3>2, <3>3 DEF EndFetch
    <3> QED
      BY <3>1, <3>3
  <2>2. ASSUME NEW next \in Steps \ {"idle"}, Advance(f, next) PROVE SharedFetchRuns'
    BY <1>3, <2>2, FetchAdvances DEF Continues, Advance
  <2> QED
    BY <1>3, <2>1, <2>2 DEF Continues
<1>4. CASE ClearSession
  BY <1>4 DEF ClearSession, NoFetches
<1>5. CASE Restart
  BY <1>5 DEF Restart, NoFetches
<1> QED
  BY <1>1, <1>2, <1>3, <1>4, <1>5, StepKinds

\* The inductive invariant behind OneFetchPerGroup: what runs is what is shared.
Solo == \A f \in Running : inflight[groupOf[f]] = f

SoloInv == ~crossed => Solo

\* No wipe leaves a request behind unnoticed, and who begins a request found none.
LEMMA SoloStep ==
    ASSUME TypeOK, ReadersServed, SoloInv, [Next]_vars
    PROVE  SoloInv'
<1> SUFFICES ASSUME ~crossed' PROVE Solo'
  BY DEF SoloInv
<1> USE DEF TypeOK, FetchesTypeOK
<1>1. CASE ClearSession
  BY <1>1 DEF ClearSession, Solo, Running
<1>2. CASE Restart
  BY <1>2 DEF Restart, Solo, Running
<1>3. ASSUME UNCHANGED crossed PROVE Solo
  BY <1>3 DEF SoloInv
<1>4. ASSUME Solo, Stays PROVE Solo'
  BY <1>4 DEF Stays, Solo, Running
<1>5. ASSUME Solo, NEW g \in Groups, NEW f \in Fetches, Begins(g, f) PROVE Solo'
  <2>1. ASSUME NEW e \in Running' PROVE inflight'[groupOf'[e]] = e
    <3>1. CASE e = f
      BY <1>5, <3>1 DEF Begins
    <3>2. CASE e # f
      <4>1. e \in Running /\ groupOf'[e] = groupOf[e] /\ groupOf[e] \in Groups
        BY <1>5, <2>1, <3>2 DEF Begins, Running
      <4>2. groupOf[e] # g
        BY <1>5, <4>1, NoneAssumption DEF Solo, Begins, Running
      <4> QED
        BY <1>5, <4>1, <4>2 DEF Solo, Begins
    <3> QED
      BY <3>1, <3>2
  <2> QED
    BY <2>1 DEF Solo
<1>6. ASSUME Solo, NEW f \in Fetches, Continues(f) PROVE Solo'
  <2>1. CASE EndFetch(f)
    <3>1. ASSUME NEW e \in Running' PROVE inflight'[groupOf'[e]] = e
      <4>1. e \in Running /\ e # f /\ groupOf'[e] = groupOf[e] /\ groupOf[e] \in Groups
        BY <2>1, <3>1 DEF EndFetch, Running
      <4>2. groupOf[e] # groupOf[f]
        BY <1>6, <4>1 DEF Solo, Continues
      <4> QED
        BY <1>6, <2>1, <4>1, <4>2 DEF Solo, EndFetch
    <3> QED
      BY <3>1 DEF Solo
  <2>2. ASSUME NEW next \in Steps \ {"idle"}, Advance(f, next) PROVE Solo'
    BY <1>6, <2>2 DEF Advance, Solo, Continues, Running
  <2> QED
    BY <1>6, <2>1, <2>2 DEF Continues
<1> QED
  BY <1>1, <1>2, <1>3, <1>4, <1>5, <1>6, StepKinds

\* Whatever caches a key stores it or notes that it could not, and whatever
\* deletes the stored key drops the cached one in the same step.
LEMMA SavedStep ==
    ASSUME TypeOK, ReadersServed, CachedIsSaved, [Next]_vars
    PROVE  CachedIsSaved'
<1> USE DEF CachedIsSaved
<1>1. CASE UNCHANGED <<cached, stored, unsaved>>
  BY <1>1
<1>3. ASSUME NEW f \in Fetches, FetchStep(f) PROVE CachedIsSaved'
  BY <1>1, <1>3 DEF FetchStep, Answered, RequestFails, NoEnvelope, NoSender, ResolveSender, Unwrap,
     UnwrapFails, RetryUnwrap, Requested, NotRecovered, Settle, Persist, Stamp, keys
<1>4. ASSUME NEW g \in Groups, GroupStep(g) PROVE CachedIsSaved'
  BY <1>1, <1>4 DEF GroupStep, DropDelivery, LoadKey, Persist, SelfWrap, SelfWrapAccepted,
     MemberWraps, LoseDelivery, StampExpires, DedupExpires, keys
<1>5. ASSUME NEW r \in Readers, ReaderStep(r) PROVE CachedIsSaved'
  BY <1>1, <1>5 DEF ReaderStep, Read, HandleDelivery, GetOrFetch, Cached, Gated, FromDatabase,
     FromServer, UseKey, DecryptFails, FindsAgain, Forget, keys
<1>6. ASSUME SessionStep PROVE CachedIsSaved'
  BY <1>1, <1>6 DEF SessionStep, Logout, KeyWipe, SessionReady, Restart, ClearSession, keys
<1> QED
  BY <1>1, <1>3, <1>4, <1>5, <1>6 DEF Next, vars, keys

-----------------------------------------------------------------------------
(* Theorems.                                                                *)

\* The inductive invariant.  Types alone are not inductive: that the group a
\* failing decryption forgets is a group rests on ReadersServed, and that a
\* reader who joins a request will be answered rests on SharedFetchRuns.
ServedInv == TypeOK /\ ReadersServed /\ SharedFetchRuns

LEMMA ServedInit == Init => ServedInv /\ SoloInv /\ CachedIsSaved
<1> SUFFICES ASSUME Init PROVE ServedInv /\ SoloInv /\ CachedIsSaved
  OBVIOUS
<1> USE DEF Init
<1>1. KeysTypeOK
  BY DEF KeysTypeOK
<1>2. FetchesTypeOK
  BY DEF FetchesTypeOK, NoFetches, Steps, Envelopes
<1>3. ReadersTypeOK /\ ReadersServed
  BY DEF ReadersTypeOK, ReadersServed, Holdings
<1>4. SessionTypeOK
  BY DEF SessionTypeOK
<1>5. SharedFetchRuns /\ SoloInv /\ CachedIsSaved
  BY DEF SharedFetchRuns, NoFetches, SoloInv, Solo, Running, CachedIsSaved
<1> QED
  BY <1>1, <1>2, <1>3, <1>4, <1>5 DEF ServedInv, TypeOK

LEMMA ServedAlways == Spec => []ServedInv
<1>1. Init => ServedInv
  BY ServedInit
<1>2. ServedInv /\ [Next]_vars => ServedInv'
  <2> SUFFICES ASSUME ServedInv, [Next]_vars PROVE ServedInv'
    OBVIOUS
  <2>1. TypeOK /\ ReadersServed /\ SharedFetchRuns
    BY DEF ServedInv
  <2>2. FetchesTypeOK'
    BY <2>1, FetchesType, AnswersType DEF FetchesTypeOK
  <2>3. KeysTypeOK' /\ SessionTypeOK'
    BY <2>1, KeysType, SessionType
  <2>4. ReadersTypeOK' /\ ReadersServed' /\ SharedFetchRuns'
    BY <2>1, ReadersStep, SharedStep
  <2> QED
    BY <2>2, <2>3, <2>4 DEF ServedInv, TypeOK
<1> QED
  BY <1>1, <1>2, PTL DEF Spec

\* Every reachable state is well typed: a request has a group exactly while it
\* runs, across wipes, restarts and stale requests.
THEOREM TypeCorrect == Spec => []TypeOK
<1>1. ServedInv => TypeOK
  BY DEF ServedInv
<1> QED
  BY <1>1, ServedAlways, PTL

\* No reader is left waiting for a request that is gone.
THEOREM ReadersServedAlways == Spec => []ReadersServed
<1>1. ServedInv => ReadersServed
  BY DEF ServedInv
<1> QED
  BY <1>1, ServedAlways, PTL

\* What later readers share is a request of their group that still runs.
THEOREM SharedFetchAlways == Spec => []SharedFetchRuns
<1>1. ServedInv => SharedFetchRuns
  BY DEF ServedInv
<1> QED
  BY <1>1, ServedAlways, PTL

\* Concurrent calls for a group coalesce onto a single request while no request
\* was in progress at the last wipe.
THEOREM OneFetchAlways == Spec => []OneFetchPerGroup
<1>1. Init => SoloInv
  BY ServedInit
<1>2. ServedInv /\ SoloInv /\ [Next]_vars => SoloInv'
  BY SoloStep DEF ServedInv
<1>3. SoloInv => OneFetchPerGroup
  BY DEF SoloInv, Solo, OneFetchPerGroup
<1> QED
  BY <1>1, <1>2, <1>3, ServedAlways, PTL DEF Spec

\* No key is in memory only, but for one whose write failed: a restart loses
\* nothing that was ever written and neither invalidated nor wiped.
THEOREM CachedIsSavedAlways == Spec => []CachedIsSaved
<1>1. Init => CachedIsSaved
  BY ServedInit
<1>2. ServedInv /\ CachedIsSaved /\ [Next]_vars => CachedIsSaved'
  BY SavedStep DEF ServedInv
<1> QED
  BY <1>1, <1>2, ServedAlways, PTL DEF Spec
-----------------------------------------------------------------------------
(* How long a reader can wait: the half of ReadersAnswered that needs no    *)
(* fairness.                                                                *)

\* How many awaits a request still has ahead of it at most, counted from its end.
Ahead ==
    [s \in Steps |-> CASE s = "idle" -> 0 [] s = "processed" -> 1 [] s = "retrying" -> 2
                       [] s = "recovering" -> 3 [] s = "resolving" -> 4 [] s = "answered" -> 5
                       [] s = "asked" -> 6]

\* Every step of a request brings it nearer to its end, which frees its readers;
\* and no step, wipes and restarts included, sends a request that a reader waits
\* for back, or makes the reader wait for another one.
WaitsRunDown ==
    [][/\ \A f \in Fetches : FetchStep(f) =>
            /\ Ahead[step'[f]] < Ahead[step[f]]
            /\ step'[f] = "idle" => \A r \in Readers : awaiting'[r] # f
       /\ \A r \in Readers : awaiting[r] # None =>
            \/ awaiting'[r] = None
            \/ /\ awaiting'[r] = awaiting[r]
               /\ Ahead[step'[awaiting[r]]] <= Ahead[step[awaiting[r]]]]_vars
\* A step of a request ends it and resumes its readers, or goes on to a later await.
LEMMA FetchStepNears ==
    ASSUME TypeOK, NEW f \in Fetches, FetchStep(f)
    PROVE  /\ f \in Running
           /\ \/ EndFetch(f) /\ StopWaiting(f)
              \/ /\ UNCHANGED awaiting
                 /\ \E next \in Steps \ {"idle"} : Advance(f, next) /\ Ahead[next] < Ahead[step[f]]
<1>1. f \in Running
  BY DEF FetchStep, Answered, RequestFails, NoEnvelope, NoSender, ResolveSender, Unwrap,
         UnwrapFails, RetryUnwrap, Requested, NotRecovered, Settle, Running
<1>2. CASE EndFetch(f) /\ StopWaiting(f)
  BY <1>1, <1>2
<1>3. ASSUME NEW next \in Steps \ {"idle"}, Advance(f, next), UNCHANGED awaiting,
             Ahead[next] < Ahead[step[f]]
      PROVE  UNCHANGED awaiting
             /\ \E to \in Steps \ {"idle"} : Advance(f, to) /\ Ahead[to] < Ahead[step[f]]
  BY <1>3
<1>4. /\ Ahead["processed"] = 1 /\ Ahead["retrying"] = 2 /\ Ahead["recovering"] = 3
      /\ Ahead["resolving"] = 4 /\ Ahead["answered"] = 5 /\ Ahead["asked"] = 6
  BY DEF Ahead, Steps
<1>5. CASE Answered(f)
  <2>1. step[f] = "asked" /\ Advance(f, "answered") /\ UNCHANGED awaiting
    BY <1>5 DEF Answered, readers
  <2> QED
    BY <2>1, <1>1, <1>3, <1>4 DEF Steps
<1>6. CASE ResolveSender(f) /\ ~EndFetch(f)
  <2>1. step[f] = "answered" /\ Advance(f, "resolving") /\ UNCHANGED awaiting
    BY <1>6 DEF ResolveSender, Reject, readers
  <2> QED
    BY <2>1, <1>1, <1>3, <1>4 DEF Steps
<1>7. CASE Unwrap(f)
  <2>1. step[f] \in {"resolving", "retrying"} /\ Advance(f, "processed") /\ UNCHANGED awaiting
    BY <1>7 DEF Unwrap
  <2> QED
    BY <2>1, <1>1, <1>3, <1>4 DEF Steps
<1>8. CASE UnwrapFails(f) /\ ~EndFetch(f)
  <2>1. step[f] = "resolving" /\ Advance(f, "recovering") /\ UNCHANGED awaiting
    BY <1>8 DEF UnwrapFails, Reject, readers
  <2> QED
    BY <2>1, <1>1, <1>3, <1>4 DEF Steps
<1>9. CASE RetryUnwrap(f)
  <2>1. step[f] = "recovering" /\ Advance(f, "retrying") /\ UNCHANGED awaiting
    BY <1>9 DEF RetryUnwrap, readers
  <2> QED
    BY <2>1, <1>1, <1>3, <1>4 DEF Steps
<1>10. CASE \/ RequestFails(f) \/ NoEnvelope(f) \/ NoSender(f) \/ Requested(f) \/ NotRecovered(f)
            \/ Settle(f) \/ (ResolveSender(f) /\ EndFetch(f)) \/ (UnwrapFails(f) /\ EndFetch(f))
  <2>1. EndFetch(f) /\ (StopWaiting(f) \/ ResolveSender(f) \/ UnwrapFails(f))
    BY <1>10 DEF RequestFails, NoEnvelope, NoSender, Requested, NotRecovered, Settle, Reject
  <2>2. CASE StopWaiting(f)
    BY <2>1, <2>2, <1>2
  <2>3. CASE ResolveSender(f) /\ ~Reject(f)
    BY <2>3, <1>1, <1>3, <1>4 DEF ResolveSender, readers, Steps
  <2>4. CASE UnwrapFails(f) /\ ~Reject(f)
    BY <2>4, <1>1, <1>3, <1>4 DEF UnwrapFails, readers, Steps
  <2> QED
    BY <2>1, <2>2, <2>3, <2>4 DEF Reject
<1> QED
  BY <1>5, <1>6, <1>7, <1>8, <1>9, <1>10 DEF FetchStep

\* What a step that is not one of a request does to what readers wait for.
LEMMA OtherStepWaits ==
    ASSUME TypeOK, ReadersServed, [Next]_vars, \A f \in Fetches : ~FetchStep(f)
    PROVE  \A r \in Readers : awaiting[r] # None =>
             awaiting'[r] = None
             \/ (awaiting'[r] = awaiting[r] /\ step'[awaiting[r]] = step[awaiting[r]])
<1> SUFFICES ASSUME NEW r \in Readers, awaiting[r] # None
             PROVE  awaiting'[r] = None
                    \/ (awaiting'[r] = awaiting[r] /\ step'[awaiting[r]] = step[awaiting[r]])
  OBVIOUS
<1>a. awaiting[r] \in Running /\ reading[r] # None /\ holding[r] = "nothing"
  BY DEF ReadersServed
<1>b. ASSUME UNCHANGED <<awaiting, step>>
      PROVE  awaiting'[r] = awaiting[r] /\ step'[awaiting[r]] = step[awaiting[r]]
  BY <1>b
<1>1. CASE UNCHANGED vars
  BY <1>1, <1>b DEF vars, readers, fetches
<1>2. ASSUME NEW g \in Groups, GroupStep(g) PROVE UNCHANGED <<awaiting, step>>
  BY <1>2 DEF GroupStep, DropDelivery, LoadKey, SelfWrap, SelfWrapAccepted, MemberWraps,
              LoseDelivery, StampExpires, DedupExpires, fetches, readers
<1>c. ASSUME NEW q \in Readers, q # r, NEW g, Joins(q, g) \/ Asks(q, g)
      PROVE  awaiting'[r] = awaiting[r] /\ step'[awaiting[r]] = step[awaiting[r]]
  BY <1>a, <1>c DEF Joins, Asks, Await, fetches, TypeOK, ReadersTypeOK, FetchesTypeOK, Running
<1>3. ASSUME NEW q \in Readers, ReaderStep(q)
      PROVE  awaiting'[r] = awaiting[r] /\ step'[awaiting[r]] = step[awaiting[r]]
  <2>1. CASE UseKey(q)
    BY <2>1, <1>b DEF UseKey, Release, fetches
  <2>2. CASE DecryptFails(q)
    <3>1. q # r
      BY <2>2, <1>a DEF DecryptFails
    <3> QED
      BY <2>2, <3>1, <1>b, <1>c DEF DecryptFails, Release, fetches
  <2>3. ASSUME NEW g \in Groups, NEW stamps, GetOrFetch(q, g, stamps)
        PROVE  awaiting'[r] = awaiting[r] /\ step'[awaiting[r]] = step[awaiting[r]]
    <3>1. q # r
      BY <2>3, <1>a DEF GetOrFetch
    <3> QED
      BY <2>3, <3>1, <1>b, <1>c
      DEF GetOrFetch, Cached, Gated, FromDatabase, FromServer, Hold, fetches, readers
  <2> QED
    BY <1>3, <2>1, <2>2, <2>3 DEF ReaderStep, Read, HandleDelivery
<1>4. CASE SessionStep
  <2>1. CASE Restart
    BY <2>1 DEF Restart
  <2>2. CASE Logout \/ KeyWipe \/ SessionReady
    BY <2>2, <1>b DEF Logout, KeyWipe, SessionReady, ClearSession, readers, fetches
  <2> QED
    BY <1>4, <2>1, <2>2 DEF SessionStep
<1> QED
  BY <1>1, <1>2, <1>3, <1>4, <1>b DEF Next

\* A request a reader waits for takes at most six steps to its end, however often
\* keys are wiped, read, delivered or invalidated meanwhile: with fairness of its
\* steps, which only TLC's run assumes, every reader is answered.
THEOREM WaitsRunDownAlways == Spec => WaitsRunDown
<1> DEFINE Nears(f) == FetchStep(f) =>
             /\ Ahead[step'[f]] < Ahead[step[f]]
             /\ step'[f] = "idle" => \A r \in Readers : awaiting'[r] # f
           Stays1(r) == awaiting[r] # None =>
             \/ awaiting'[r] = None
             \/ /\ awaiting'[r] = awaiting[r]
                /\ Ahead[step'[awaiting[r]]] <= Ahead[step[awaiting[r]]]
<1>1. \A s \in Steps : Ahead[s] \in Nat /\ (s # "idle" => Ahead[s] > 0) /\ Ahead["idle"] = 0
  BY DEF Ahead, Steps
<1>2. ASSUME ServedInv, NEW f \in Fetches, FetchStep(f)
      PROVE  Nears(f) /\ \A r \in Readers : Stays1(r)
  <2>0. TypeOK /\ ReadersServed /\ f \in Running /\ f # None
    BY <1>2, FetchStepNears, NoneAssumption DEF ServedInv
  <2>1. CASE EndFetch(f) /\ StopWaiting(f)
    <3>1. step' = [step EXCEPT ![f] = "idle"] /\ step[f] \in Steps \ {"idle"}
      BY <2>0, <2>1 DEF EndFetch, Running, TypeOK, FetchesTypeOK
    <3>2. awaiting' = [r \in Readers |-> IF awaiting[r] = f THEN None ELSE awaiting[r]]
      BY <2>1 DEF StopWaiting, Waiting
    <3>3. step'[f] = "idle" /\ \A e \in Fetches : e # f => step'[e] = step[e]
      BY <3>1, <2>0 DEF TypeOK, FetchesTypeOK
    <3>4. Nears(f)
      BY <1>1, <2>0, <3>1, <3>2, <3>3
    <3>5. ASSUME NEW r \in Readers PROVE Stays1(r)
      <4>1. CASE awaiting[r] \in {f, None}
        BY <4>1, <3>2
      <4>2. CASE awaiting[r] \notin {f, None}
        <5>1. awaiting[r] \in Fetches
          BY <4>2, <2>0 DEF TypeOK, ReadersTypeOK
        <5>2. awaiting'[r] = awaiting[r] /\ step'[awaiting[r]] = step[awaiting[r]]
          BY <3>2, <3>3, <4>2, <5>1
        <5>3. step[awaiting[r]] \in Steps
          BY <5>1, <2>0 DEF TypeOK, FetchesTypeOK
        <5> QED
          BY <5>2, <5>3, <1>1
      <4> QED
        BY <4>1, <4>2
    <3> QED
      BY <3>4, <3>5
  <2>2. ASSUME UNCHANGED awaiting, NEW next \in Steps \ {"idle"}, Advance(f, next),
               Ahead[next] < Ahead[step[f]]
        PROVE  Nears(f) /\ \A r \in Readers : Stays1(r)
    <3>1. step' = [step EXCEPT ![f] = next]
      BY <2>2 DEF Advance
    <3>2. step'[f] = next /\ \A e \in Fetches : e # f => step'[e] = step[e]
      BY <3>1, <2>0 DEF TypeOK, FetchesTypeOK
    <3>3. ASSUME NEW r \in Readers, awaiting[r] # None
          PROVE  Ahead[step'[awaiting[r]]] <= Ahead[step[awaiting[r]]]
      <4>1. awaiting[r] \in Fetches /\ step[awaiting[r]] \in Steps
        BY <3>3, <2>0 DEF TypeOK, ReadersTypeOK, FetchesTypeOK
      <4> QED
        BY <4>1, <3>2, <2>2, <1>1
    <3> QED
      BY <2>2, <3>2, <3>3
  <2> QED
    BY <1>2, <2>0, <2>1, <2>2, FetchStepNears
<1>3. ASSUME ServedInv, [Next]_vars
      PROVE  (\A f \in Fetches : Nears(f)) /\ \A r \in Readers : Stays1(r)
  <2>1. CASE \A f \in Fetches : ~FetchStep(f)
    <3>1. ASSUME NEW r \in Readers PROVE Stays1(r)
      <4>1. awaiting[r] # None => awaiting[r] \in Fetches /\ step[awaiting[r]] \in Steps
        BY <1>3 DEF ServedInv, TypeOK, ReadersTypeOK, FetchesTypeOK
      <4> QED
        BY <4>1, <1>1, <1>3, <2>1, OtherStepWaits DEF ServedInv
    <3> QED
      BY <2>1, <3>1
  <2>2. ASSUME NEW f \in Fetches, FetchStep(f)
        PROVE  (\A e \in Fetches : Nears(e)) /\ \A r \in Readers : Stays1(r)
    BY <1>2, <1>3, <2>2
  <2> QED
    BY <2>1, <2>2
<1> QED
  BY <1>3, ServedAlways, PTL DEF Spec, WaitsRunDown
=============================================================================
